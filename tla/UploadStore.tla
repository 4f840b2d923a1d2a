---------------------------- MODULE UploadStore ----------------------------
(***************************************************************************)
(* What a chunked upload promises whoever uses it, whichever backend       *)
(* stores it and whatever happens to the server on the way.                *)
(*                                                                         *)
(* A session collects chunks while it is open, publishes its object once   *)
(* and only when every chunk has landed, records at most one file for it,  *)
(* and never takes a published object back.                                *)
(***************************************************************************)
CONSTANTS Sessions, Chunks

VARIABLES stage,    \* stage[s]: how far session s has come
          landed,   \* landed[s]: the chunks the object of s holds whole
          answered  \* answered[s]: the answers clients got about s

vars == <<stage, landed, answered>>

Stages == {"unopened", "open", "published", "recorded", "discarded"}

Answers == {"created", "completed", "cancelled"}

Init ==
  /\ stage = [s \in Sessions |-> "unopened"]
  /\ landed = [s \in Sessions |-> {}]
  /\ answered = [s \in Sessions |-> {}]

Open(s) ==
  /\ stage[s] = "unopened"
  /\ stage' = [stage EXCEPT ![s] = "open"]
  /\ UNCHANGED <<landed, answered>>

Land(s, i) ==
  /\ stage[s] = "open"
  /\ landed' = [landed EXCEPT ![s] = @ \union {i}]
  /\ UNCHANGED <<stage, answered>>

Publish(s) ==
  /\ stage[s] = "open"
  /\ landed[s] = Chunks
  /\ stage' = [stage EXCEPT ![s] = "published"]
  /\ UNCHANGED <<landed, answered>>

Record(s) ==
  /\ stage[s] = "published"
  /\ stage' = [stage EXCEPT ![s] = "recorded"]
  /\ UNCHANGED <<landed, answered>>

Discard(s) ==
  /\ stage[s] = "open"
  /\ stage' = [stage EXCEPT ![s] = "discarded"]
  /\ landed' = [landed EXCEPT ![s] = {}]
  /\ UNCHANGED answered

Justified(s, answer) ==
  CASE answer = "created"   -> stage[s] = "open"
    [] answer = "completed" -> stage[s] = "recorded"
    [] answer = "cancelled" -> stage[s] # "unopened"

Answer(s, answer) ==
  /\ Justified(s, answer)
  /\ answered' = [answered EXCEPT ![s] = @ \union {answer}]
  /\ UNCHANGED <<stage, landed>>

Next ==
  \E s \in Sessions :
    \/ Open(s)
    \/ \E i \in Chunks : Land(s, i)
    \/ Publish(s)
    \/ Record(s)
    \/ Discard(s)
    \/ \E a \in Answers : Answer(s, a)

Spec == Init /\ [][Next]_vars
=============================================================================
