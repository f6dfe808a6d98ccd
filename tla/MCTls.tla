------------------------------- MODULE MCTls -------------------------------
(***************************************************************************)
(* TLS: the streams and the context.  A context reaches a stream as one     *)
(* flag, setup_failed, which both models have; a behaviour explores one of  *)
(* the two and `part` says which.                                           *)
(***************************************************************************)
EXTENDS TlsStream, TlsContext

VARIABLE part    \* "stream" or "context"

MCInit == /\ TlsInit /\ TcInit /\ part \in {"stream", "context"}
          /\ (part = "stream" => cd = Defaults /\ build.crl)
          /\ (part = "context" => lib = "openssl" /\ mode = "half" /\ ~setup_failed)
MCNext == \/ part = "stream" /\ TlsNext /\ UNCHANGED <<part, tc_vars>>
          \/ part = "context" /\ TcNext /\ UNCHANGED <<part, tls_vars>>
MCSpec == MCInit /\ [][MCNext]_<<part, tls_vars, tc_vars>>
=============================================================================
