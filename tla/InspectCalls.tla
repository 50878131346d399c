---------------------------- MODULE InspectCalls ----------------------------
(* inspect_at of krypto-cli inspect (src/src/bin/krypto-cli/inspect/mod.rs): *)
(* how it takes layers of PEM, hex and base64 off and calls itself for what  *)
(* is in them.  A call is a frame on a stack; the model takes one step per   *)
(* call and one per return.  What the recognizers know and what the decoders *)
(* find is left to parameters; Inspect has them, and the run's configuration *)
(* gives one for the other.                                                  *)
EXTENDS Naturals, Sequences

CONSTANTS
  Inputs,           \* what inspect may be given
  Recognize(_),     \* what the recognizers tell of a term, but for guesses
  Guess(_),         \* what its length tells of it
  LabelOf(_),       \* what the label of a PEM block tells of it
  PemHolds(_),      \* what is in it if it is PEM, or hex, or base64
  HexHolds(_),
  Base64Holds(_),
  LayersOf(_)       \* how many there are in it at most, for the proof of the end

MaxUnwraps == 2
NOT_RECOGNIZED == "not recognized"
Unknown == [what |-> NOT_RECOGNIZED, facts |-> {}, wraps |-> <<>>, changed |-> FALSE]

VARIABLES
  input,          \* what inspect was given
  frames,         \* the calls of inspect_at under way, the innermost last
  found           \* what the innermost call returns, once it does

vars == <<input, frames, found>>

Wrapped(f, how) == [f EXCEPT !.wraps = <<how>> \o @]

Otherwise(t) == IF Guess(t) # {} THEN Guess(t) ELSE {Unknown}

Layer(how, inside) == {[of |-> u, how |-> how] : u \in inside}

\* Mutant: hex and base64 are unwrapped once more.
InnerOnceMore(t, depth) ==
  IF PemHolds(t) # {} THEN Layer("pem", PemHolds(t))
  ELSE IF depth > MaxUnwraps THEN {}
  ELSE IF HexHolds(t) # {} THEN Layer("hex", HexHolds(t))
  ELSE Layer("base64", Base64Holds(t))

\* What inspect_at is asked next for the inside of t, and as what.
Inner(t, depth) ==
  IF PemHolds(t) # {} THEN Layer("pem", PemHolds(t))
  ELSE IF depth >= MaxUnwraps THEN {}
  ELSE IF HexHolds(t) # {} THEN Layer("hex", HexHolds(t))
  ELSE Layer("base64", Base64Holds(t))

Top == frames[Len(frames)]

Init ==
  /\ input \in Inputs
  /\ frames = <<[of |-> input, how |-> "inspect", depth |-> 0]>>
  /\ found = {}

CallAtTheTop(inner, depth) == [of |-> inner.of, how |-> inner.how, depth |-> 1]
Call(inner, depth) == [of |-> inner.of, how |-> inner.how, depth |-> depth + 1]

\* A call of inspect_at: it recognizes its input, takes a layer off and calls
\* itself for the inside, or has to guess.
InspectAt ==
  /\ frames # <<>> /\ found = {}
  /\ \E known \in {Recognize(Top.of)}, inner \in {Inner(Top.of, Top.depth)} :
       \/ /\ known # {}
          /\ found' = known
          /\ UNCHANGED frames
       \/ /\ known = {}
          /\ \E i \in inner : frames' = Append(frames, Call(i, Top.depth))
          /\ UNCHANGED found
       \/ /\ known = {} /\ inner = {}
          /\ found' = Otherwise(Top.of)
          /\ UNCHANGED frames
  /\ UNCHANGED input

\* Base64 that held nothing known leaves no answer, and is asked for again.
PassedOrNothing(caller, how, f) ==
  IF f.what = NOT_RECOGNIZED /\ how = "base64" THEN {} ELSE {Wrapped(f, how)}

\* What the caller makes of what the call for its inside returned.
Passed(caller, how, f) ==
  IF f.what # NOT_RECOGNIZED \/ how = "hex" THEN {Wrapped(f, how)}
  ELSE IF how = "pem" THEN {Wrapped(LabelOf(caller.of), how)}
  ELSE Otherwise(caller.of)

Return ==
  /\ Len(frames) > 1 /\ found # {}
  /\ found' = UNION {Passed(frames[Len(frames) - 1], Top.how, f) : f \in found}
  /\ frames' = SubSeq(frames, 1, Len(frames) - 1)
  /\ UNCHANGED input

\* main prints the report; the exit code is in Cli.
Report ==
  /\ Len(frames) = 1 /\ found # {}
  /\ frames' = <<>>
  /\ UNCHANGED <<input, found>>

Exited == frames = <<>> /\ UNCHANGED vars

Next == InspectAt \/ Return \/ Report \/ Exited

Spec == Init /\ [][Next]_vars

-----------------------------------------------------------------------------
\* What is asked of the parameters, where terms are the inputs and all that is
\* in them: a recognizer and a decoder answer once or
\* not at all, what they tell is never that nothing is known, a layer they take
\* off themselves is neither hex nor base64, and layers end.
AtMostOne(S) == \A x, y \in S : x = y

IsFinding(f) ==
  /\ f = [what |-> f.what, facts |-> f.facts, wraps |-> f.wraps, changed |-> f.changed]
  /\ f.wraps \in Seq({"pem", "hex", "base64", "armor"})

Tells(f) ==
  /\ IsFinding(f) /\ f.what # NOT_RECOGNIZED
  /\ \A i \in DOMAIN f.wraps : f.wraps[i] \in {"pem", "armor"}

Unwrapped(t) == PemHolds(t) \cup HexHolds(t) \cup Base64Holds(t)

Recognizers(terms) ==
  /\ Inputs \subseteq terms
  /\ \A t \in terms :
       /\ \A answers \in {Recognize(t), Guess(t)} :
            AtMostOne(answers) /\ \A f \in answers : Tells(f)
       /\ PemHolds(t) # {} => Tells(LabelOf(t))
       /\ AtMostOne(PemHolds(t)) /\ AtMostOne(HexHolds(t)) /\ AtMostOne(Base64Holds(t))
       /\ LayersOf(t) \in Nat
       /\ \A u \in Unwrapped(t) : u \in terms /\ LayersOf(u) < LayersOf(t)

-----------------------------------------------------------------------------
TypeOK ==
  /\ \A i \in DOMAIN frames : frames[i].depth = i - 1
  /\ \A i \in 2..Len(frames) :
       [of |-> frames[i].of, how |-> frames[i].how] \in Inner(frames[i - 1].of, i - 2)
  /\ AtMostOne(found)

Done == frames = <<>>

\* "Hex and base64 are unwrapped once or twice, never more" (mod.rs:80), with
\* PEM around or between; and what is not known is told as such only inside
\* hex, while base64 and PEM around it are taken for something else.
LayersTold ==
  Done =>
    \A f \in found :
      /\ \A i \in DOMAIN f.wraps : f.wraps[i] \in {"hex", "base64"} => i <= MaxUnwraps
      /\ f.what = NOT_RECOGNIZED => \A i \in DOMAIN f.wraps : f.wraps[i] = "hex"

\* Whatever is on stdin, inspect ends: every step uses up a layer or a call, so
\* none is asked about twice, and no state but the last is without a step (the
\* run looks for deadlocks).
ToDo == Len(frames) + IF frames # <<>> /\ found = {} THEN 2 * LayersOf(Top.of) + 1 ELSE 0

EveryStepGetsNearer == [][ToDo' < ToDo]_vars
=============================================================================
