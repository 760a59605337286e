----------------------------- MODULE CrashMap -----------------------------
(***************************************************************************)
(* What a store promises: a map that is written one operation at a time    *)
(* and may be set back by a crash, but only to a map it has been before,   *)
(* never to a mixture.  FileDB is shown to implement it.                   *)
(***************************************************************************)
EXTENDS Sequences, Naturals

CONSTANTS Keys, Vals, Absent

VARIABLES
    history,    \* the maps since the last one known to be on stable storage,
                \* which is the first; readers see the last
    acked       \* the place in history of the last acknowledged map

Now == history[Len(history)]

Init ==
    /\ history = <<[k \in Keys |-> Absent]>>
    /\ acked = 1

\* Put or Delete, alone or inside a batch: one key gets or loses its value.
Write ==
    /\ Len(history') = Len(history) + 1
    /\ \E k \in Keys : \A j \in Keys \ {k} : history'[Len(history')][j] = Now[j]
    /\ SubSeq(history', 1, Len(history)) = history
    /\ UNCHANGED acked

\* A call returns without an error.
Acknowledge ==
    /\ acked' = Len(history)
    /\ UNCHANGED history

\* Everything up to the n-th map reaches stable storage, and what was called
\* for is acknowledged or not.
Harden(n) ==
    /\ Len(history') = Len(history) - n + 1
    /\ history' = SubSeq(history, n, Len(history))
    /\ acked' \in {Len(history'), IF acked > n THEN acked - n + 1 ELSE 1}

\* The process dies: what it had acknowledged is still in the hands of the
\* operating system.
Crash ==
    \E n \in acked..Len(history) :
        /\ acked' = n
        /\ history' = SubSeq(history, 1, n)

\* The machine dies: what had not been hardened may be gone.
PowerLoss ==
    \E n \in 1..Len(history) :
        /\ acked' = 1
        /\ Len(history') = 1
        /\ history' = <<history[n]>>

Next ==
    \/ Write
    \/ Acknowledge
    \/ \E n \in 1..Len(history) : Harden(n)
    \/ Crash
    \/ PowerLoss

Spec == Init /\ [][Next]_<<history, acked>>
=============================================================================
