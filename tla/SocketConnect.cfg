SPECIFICATION SockSpec
CONSTANTS
    Kinds = {"connect"}
    Stops = {}
    Calls = {"open"}
    Peer = {}
INVARIANTS
  ConnectEstablished
