------------------------------- MODULE KVStore -------------------------------
(***************************************************************************)
(* What a caller of SecretStore may rely on (src/src/store.rs), told         *)
(* without files, locks or keys: a map from names to values that changes    *)
(* one requested name at a time.                                            *)
(*   data  the contents the store answers with                              *)
(*   safe  the contents a restart may come back with                        *)
(*   ask   the put or delete in progress, if any                            *)
(*   told  how the last call that changes the store was answered            *)
(* A put, or a delete of a name that is in `data`, that is told "ok" is in   *)
(* `data` and is all of `safe`: no crash undoes it.  One that fails or dies  *)
(* may still come back, but only at a restart, only as the whole of what    *)
(* was asked, and never at the cost of another name.  A delete of a name    *)
(* that is not in `data` is told "ok" too, but nothing is done: if a failed  *)
(* put left the name in `safe`, it stays there.                             *)
(***************************************************************************)
CONSTANTS Names, Vals, NoVal, NoOp

VARIABLES data, safe, ask, told

vars == <<data, safe, ask, told>>

Contents == [Names -> Vals \cup {NoVal}]
Ops == [name : Names, val : Vals \cup {NoVal}]

Init ==
  /\ data = [n \in Names |-> NoVal]
  /\ safe = {data}
  /\ ask = NoOp
  /\ told = "none"

Asked == [data EXCEPT ![ask.name] = ask.val]

\* A put, or a delete (val = NoVal) of a name that is there, begins.
Request ==
  /\ ask = NoOp /\ ask' \in Ops
  /\ ask'.val = NoVal => data[ask'.name] # NoVal
  /\ UNCHANGED <<told, data, safe>>

\* From here on a restart may bring the new contents.
Expose == ask # NoOp /\ UNCHANGED <<ask, told, data>> /\ safe' = safe \cup {Asked}

Succeed ==
  /\ ask # NoOp /\ ask' = NoOp /\ told' = "ok"
  /\ data' = Asked /\ safe' = {Asked}

Fail == ask # NoOp /\ ask' = NoOp /\ told' = "error" /\ UNCHANGED <<data, safe>>

\* A delete of a name that is not there.
DeleteNothing ==
  /\ ask = NoOp /\ told' = "ok" /\ UNCHANGED <<ask, data, safe>>
  /\ \E n \in Names : data[n] = NoVal

\* A rotation or the creation of the file: contents as before, now durable.
Settle == ask = NoOp /\ told' = "ok" /\ UNCHANGED <<ask, data>> /\ safe' = {data}

\* The handle is dropped, its process ends, or the machine restarts.
Restart == ask' = NoOp /\ told' = "none" /\ data' \in safe /\ safe' \in {safe, {data'}}

Next ==
  \/ Request \/ Expose \/ Succeed \/ Fail \/ DeleteNothing \/ Settle \/ Restart

Spec == Init /\ [][Next]_vars
=============================================================================
