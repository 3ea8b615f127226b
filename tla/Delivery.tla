----------------------------- MODULE Delivery -----------------------------
(***************************************************************************)
(* What reading a log promises, whoever does it: on each channel records   *)
(* are published in an order, and the reader receives them in that order,  *)
(* without a gap and without a repetition, and in the end all of them,     *)
(* until the channel is lost.  The partition implements this for the       *)
(* readers that fetch from it (PartitionProperties), and the consumer      *)
(* client, on top of a broker that does, for its application               *)
(* (ConsumerProperties).                                                   *)
(***************************************************************************)
EXTENDS Integers, SequencesExt

CONSTANTS
    Channels,
    MaxLen      \* the length of a log up to which EveryRecord is stated

VARIABLES
    log,    \* the records published on each channel
    got,    \* the records its reader has received
    lost    \* the channels of which nothing is promised any more

vars == <<log, got, lost>>

Init ==
    /\ log = [c \in Channels |-> <<>>]
    /\ got = [c \in Channels |-> <<>>]
    /\ lost = {}

\* Records are published at the end of a log, on any number of channels.
Publish ==
    /\ \A c \in Channels : IsPrefix(log[c], log'[c])
    /\ UNCHANGED <<got, lost>>

\* A reader receives some of the records that come next.
Receive(c) ==
    /\ c \notin lost
    /\ \E n \in Len(got[c]) + 1 .. Len(log[c]) :
          got' = [got EXCEPT ![c] = SubSeq(log[c], 1, n)]
    /\ UNCHANGED <<log, lost>>

\* Channels are lost, and on a lost one anything may happen, but neither does
\* any harm to the others.
Lose ==
    /\ lost \subseteq lost'
    /\ \A c \in Channels \ lost' : log'[c] = log[c] /\ got'[c] = got[c]
    /\ lost' # {}

Next == Publish \/ (\E c \in Channels : Receive(c)) \/ Lose

\* Every record is received in the end, unless the channel is lost.
EveryRecord ==
    \A c \in Channels : \A n \in 1 .. MaxLen :
        Len(log[c]) >= n ~> Len(got[c]) >= n \/ c \in lost

\* The part of the specification that a finite behaviour can violate.
Safety == Init /\ [][Next]_vars

Spec == Safety /\ EveryRecord

=============================================================================
