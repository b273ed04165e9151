----------------------------- MODULE OrderedMap -----------------------------
(***************************************************************************)
(* What a map object of the runtime promises: an association list in the   *)
(* order of first insertion, with keys compared by their content.  Nothing *)
(* is said of hashing, of buckets or of where a string key is stored.      *)
(***************************************************************************)
EXTENDS Integers, Sequences

CONSTANTS Contents, Values, MaxEntries

VARIABLES
  dict,    \* Seq(Contents \X Values)
  answer   \* what the last operation returned

Init == dict = << >> /\ answer = <<"none">>

Positions(k) == {i \in 1..Len(dict) : dict[i][1] = k}

\* A known key keeps its place, a new one is last.
Put(k, v) ==
  /\ answer' = <<"none">>
  /\ IF Positions(k) = {}
     THEN dict' = Append(dict, <<k, v>>)
     ELSE \E i \in Positions(k) : dict' = [dict EXCEPT ![i] = <<k, v>>]

Has(k) ==
  /\ answer' = <<IF Positions(k) = {} THEN "absent" ELSE "present">>
  /\ UNCHANGED dict

Get(k) ==
  /\ \/ Positions(k) = {} /\ answer' = <<"not found">>
     \/ \E i \in Positions(k) : answer' = <<"value", dict[i][2]>>
  /\ UNCHANGED dict

At(i) ==
  /\ answer' = IF i <= Len(dict) THEN <<"entry", dict[i][1], dict[i][2]>>
               ELSE <<"out of range">>
  /\ UNCHANGED dict

Next ==
  \/ \E k \in Contents, v \in Values : Put(k, v)
  \/ \E k \in Contents : Has(k) \/ Get(k)
  \/ \E i \in 1..(MaxEntries + 1) : At(i)

Spec == Init /\ [][Next]_<<dict, answer>>

=============================================================================
