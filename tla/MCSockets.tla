------------------------------ MODULE MCSockets ------------------------------
(***************************************************************************)
(* Datagram sockets, the select and kqueue demultiplexers, and the         *)
(* descriptors that sockets, files and schedulers own.  The modules share  *)
(* no state, so a behaviour explores one of them, and `part` says which;   *)
(* the others rest in one fixed initial state.                             *)
(***************************************************************************)
EXTENDS ReactorDatagram, Demux, Descriptors

VARIABLE part

Parts == {"datagram", "demux", "descriptors"}

MCInit ==
    /\ part \in Parts
    /\ DgInit
    /\ DemuxInit /\ (part # "demux" => demux = "select")
    /\ DescInit /\ (part # "descriptors" => dkind = CHOOSE k \in DescKinds : TRUE)

MCNext ==
    \/ part = "datagram" /\ DgNext
       /\ UNCHANGED <<part, demuxVars, descVars>>
    \/ part = "demux" /\ DemuxStep
       /\ UNCHANGED <<part, dgVars, descVars>>
    \/ part = "descriptors" /\ DescNext
       /\ UNCHANGED <<part, dgVars, demuxVars>>

MCSpec == MCInit /\ [][MCNext]_<<part, dgVars, demuxVars, descVars>>
=============================================================================
