------------------------------ MODULE Evidence ------------------------------
(* When a history of frames corroborates a low reading: the question the    *)
(* plausibility guards of the coordinator answer with a counter and a time  *)
(* stamp, asked of the complete history.                                    *)
EXTENDS Integers, Sequences

CONSTANTS Absent,   \* the frame lacks the field, or as_float rejects it
          None,     \* Python's None
          Stale     \* STALE_STATE_AFTER: a longer silence severs the evidence

ASSUME EvidenceAssumption == Stale \in Nat /\ Absent \notin Nat /\ None \notin Nat

\* One successful frame: its time, the poll interval it was judged under, and
\* what it reads.
Readouts == [at : Nat, interval : Nat, value : Nat \cup {Absent}]

IsLow(f, b)  == f.value # Absent /\ f.value < b
Clears(f, b) == f.value # Absent /\ f.value >= b

\* Frames i..Len(h) are one uninterrupted run of evidence against the bar b.
Unbroken(h, i, b) ==
  /\ IsLow(h[i], b)
  /\ \A j \in i..Len(h) : ~Clears(h[j], b)
  /\ \A j \in i..(Len(h) - 1) : h[j + 1].at - h[j].at <= Stale

\* An earlier frame of the run is at least one poll interval older.
Corroborated(h, b) ==
  \E i \in 1..(Len(h) - 1) :
    /\ Unbroken(h, i, b)
    /\ h[Len(h)].at - h[i].at >= h[Len(h)].interval

\* What a guard remembers of a history h judged against b: the count and the
\* time stamp are those of the unbroken run h ends in.  There is a count only
\* with a stamp, the stamp is the time of a frame of the run, and no frame of
\* the run is older.
Tallied(h, b, count, stamp) ==
  /\ count = 0 <=> stamp = None
  /\ count # 0 => \E i \in 1..Len(h) : Unbroken(h, i, b) /\ h[i].at = stamp
  /\ \A i \in 1..Len(h) : Unbroken(h, i, b) => count # 0 /\ stamp <= h[i].at
=============================================================================
