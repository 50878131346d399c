------------------------- MODULE InspectCallsProofs -------------------------
(* The calls of inspect_at, whatever the recognizers know: the stack is the  *)
(* way from the input to what is looked at (TypeTheorem); hex and base64 are *)
(* unwrapped twice at most, and only hex is told around what is not known    *)
(* (LayersTheorem); every step gets nearer to the end (EndTheorem); and what *)
(* is known is told with all its layers, however many there are              *)
(* (NestingTheorem).  All that is asked of the recognizers is Recognizers,   *)
(* which TLC evaluates for those of Inspect.                                 *)
EXTENDS InspectCalls, SequenceTheorems, TLAPS

Hows == {"inspect", "pem", "hex", "base64"}

\* The calls under way lead from the input inwards, each asked by the one before.
FramesInv(terms) ==
  /\ frames \in Seq([of : terms, how : Hows, depth : Nat])
  /\ \A i \in 1..Len(frames) : frames[i].depth = i - 1
  /\ \A i \in 2..Len(frames) :
       [of |-> frames[i].of, how |-> frames[i].how] \in Inner(frames[i - 1].of, i - 2)

\* How far in the innermost call is; the last answer stays when it has returned.
Level == IF frames = <<>> THEN 0 ELSE Len(frames) - 1

\* An answer counts its layers from the call that gives it.
FoundInv ==
  /\ frames = <<>> => found # {}
  /\ AtMostOne(found)
  /\ \A f \in found :
       /\ IsFinding(f)
       /\ \A i \in DOMAIN f.wraps :
            f.wraps[i] \in {"hex", "base64"} => Level + i <= MaxUnwraps
       /\ f.what = NOT_RECOGNIZED => \A i \in DOMAIN f.wraps : f.wraps[i] = "hex"

IInv(terms) == FramesInv(terms) /\ FoundInv

-----------------------------------------------------------------------------
\* What is asked next is in the term, as one of the three layers, and hex and
\* base64 only while the depth allows.
LEMMA InnerIsInside ==
  ASSUME NEW t, NEW d \in Nat, NEW u, NEW h, [of |-> u, how |-> h] \in Inner(t, d)
  PROVE  /\ u \in Unwrapped(t)
         /\ h \in {"pem", "hex", "base64"}
         /\ h \in {"hex", "base64"} => d < MaxUnwraps
         /\ h = "pem" => PemHolds(t) # {}
  BY DEF Inner, Layer, Unwrapped, MaxUnwraps

LEMMA InnerShape ==
  ASSUME NEW t, NEW d, NEW i \in Inner(t, d)
  PROVE  i = [of |-> i.of, how |-> i.how]
  BY DEF Inner, Layer

LEMMA OneFieldChanged ==
  ASSUME NEW f, NEW w,
         f = [what |-> f.what, facts |-> f.facts, wraps |-> f.wraps, changed |-> f.changed]
  PROVE  [f EXCEPT !.wraps = w]
           = [what |-> f.what, facts |-> f.facts, wraps |-> w, changed |-> f.changed]
  OBVIOUS

\* A layer put around a finding comes before the layers it has.
LEMMA WrappedIsFinding ==
  ASSUME NEW f, IsFinding(f), NEW h \in {"pem", "hex", "base64"}
  PROVE  /\ IsFinding(Wrapped(f, h))
         /\ Wrapped(f, h).what = f.what
         /\ Wrapped(f, h).facts = f.facts
         /\ Wrapped(f, h).changed = f.changed
         /\ Wrapped(f, h).wraps = <<h>> \o f.wraps
         /\ DOMAIN Wrapped(f, h).wraps = 1..(Len(f.wraps) + 1)
         /\ Wrapped(f, h).wraps[1] = h
         /\ \A i \in DOMAIN Wrapped(f, h).wraps :
              i # 1 => /\ i - 1 \in DOMAIN f.wraps
                       /\ Wrapped(f, h).wraps[i] = f.wraps[i - 1]
<1> DEFINE W == {"pem", "hex", "base64", "armor"}
<1>1. f = [what |-> f.what, facts |-> f.facts, wraps |-> f.wraps, changed |-> f.changed]
      /\ f.wraps \in Seq(W)
  BY DEF IsFinding
<1>2. Wrapped(f, h) = [what |-> f.what, facts |-> f.facts, wraps |-> <<h>> \o f.wraps,
                       changed |-> f.changed]
  BY <1>1, OneFieldChanged DEF Wrapped
<1>3. <<h>> \o f.wraps \in Seq(W) /\ Len(<<h>> \o f.wraps) = Len(f.wraps) + 1
  BY <1>1
<1>4. \A i \in 1..(Len(f.wraps) + 1) :
        (<<h>> \o f.wraps)[i] = IF i = 1 THEN h ELSE f.wraps[i - 1]
  BY <1>1
<1>5. DOMAIN f.wraps = 1..Len(f.wraps) /\ Len(f.wraps) \in Nat
  BY <1>1
<1>6. DOMAIN (<<h>> \o f.wraps) = 1..(Len(f.wraps) + 1)
  BY <1>3
<1>7. QED
  BY <1>2, <1>3, <1>4, <1>5, <1>6 DEF IsFinding

\* What the caller makes of an answer is one answer.
LEMMA PassedIsOne ==
  ASSUME NEW terms, Recognizers(terms), NEW c, c.of \in terms, NEW h, NEW f
  PROVE  Passed(c, h, f) # {} /\ AtMostOne(Passed(c, h, f))
  BY DEF Recognizers, Passed, Otherwise, AtMostOne

\* A guess has no layers of its own, but those a recognizer took off.
LEMMA OtherwiseTold ==
  ASSUME NEW terms, Recognizers(terms), NEW t \in terms, NEW f \in Otherwise(t)
  PROVE  /\ IsFinding(f)
         /\ \A i \in DOMAIN f.wraps : f.wraps[i] \in {"pem", "armor"}
         /\ f.what = NOT_RECOGNIZED => f.wraps = <<>>
<1>1. CASE f = Unknown
  BY <1>1 DEF Unknown, IsFinding
<1>2. CASE f \in Guess(t)
  BY <1>2 DEF Recognizers, Tells
<1>3. QED
  BY <1>1, <1>2 DEF Otherwise

-----------------------------------------------------------------------------
LEMMA InitIInv ==
  ASSUME NEW terms, Recognizers(terms), Init
  PROVE  IInv(terms)
<1>1. frames \in Seq([of : terms, how : Hows, depth : Nat]) /\ Len(frames) = 1
  BY DEF Init, Recognizers, Hows
<1>2. FramesInv(terms)
  BY <1>1 DEF FramesInv, Init
<1>3. FoundInv
  BY <1>1 DEF Init, FoundInv, AtMostOne
<1>4. QED
  BY <1>2, <1>3 DEF IInv

\* The one who asks and what is asked: the top of the stack and its depth.
LEMMA TopFacts ==
  ASSUME NEW terms, FramesInv(terms), frames # <<>>
  PROVE  /\ Len(frames) \in Nat \ {0}
         /\ Top \in [of : terms, how : Hows, depth : Nat]
         /\ Top.depth = Len(frames) - 1
<1>1. Len(frames) \in Nat \ {0}
  <2>1. frames \in Seq([of : terms, how : Hows, depth : Nat])
    BY DEF FramesInv
  <2>2. QED
    BY <2>1
<1>2. Top = frames[Len(frames)] /\ Len(frames) \in 1..Len(frames)
  BY <1>1 DEF Top
<1>3. Top \in [of : terms, how : Hows, depth : Nat]
  <2> DEFINE F == [of : terms, how : Hows, depth : Nat]
  <2>1. frames \in Seq(F)
    BY DEF FramesInv
  <2> HIDE DEF F
  <2>2. Top \in F
    BY <1>2, <2>1
  <2>3. QED
    BY <2>2 DEF F
<1>4. Top.depth = Len(frames) - 1
  BY <1>2 DEF FramesInv
<1>5. QED
  BY <1>1, <1>3, <1>4

\* A call adds the next frame, and leaves the others.
LEMMA CallKeepsFrames ==
  ASSUME NEW terms, Recognizers(terms), FramesInv(terms), frames # <<>>,
         NEW i \in Inner(Top.of, Top.depth), frames' = Append(frames, Call(i, Top.depth))
  PROVE  FramesInv(terms)' /\ Len(frames') = Len(frames) + 1
<1> DEFINE F == [of : terms, how : Hows, depth : Nat]
           n == Len(frames)
<1>1. n \in Nat \ {0} /\ Top \in F /\ Top.depth = n - 1
  BY TopFacts
<1>2. i = [of |-> i.of, how |-> i.how]
  BY InnerShape
<1>3. i.of \in Unwrapped(Top.of) /\ i.how \in {"pem", "hex", "base64"}
  BY <1>1, <1>2, InnerIsInside
<1>4. Call(i, Top.depth) \in F
  BY <1>1, <1>3 DEF Call, Recognizers, Hows
<1>5. frames \in Seq(F)
  BY DEF FramesInv
<1>6. /\ frames' \in Seq(F) /\ Len(frames') = n + 1
      /\ \A k \in 1..n : frames'[k] = frames[k]
      /\ frames'[n + 1] = Call(i, Top.depth)
  BY <1>4, <1>5
<1>7. \A k \in 1..(n + 1) : frames'[k].depth = k - 1
  BY <1>1, <1>6 DEF FramesInv, Call
<1>8. ASSUME NEW k \in 2..(n + 1)
      PROVE  [of |-> frames'[k].of, how |-> frames'[k].how] \in Inner(frames'[k - 1].of, k - 2)
  <2>1. CASE k \in 2..n
    <3>1. frames'[k] = frames[k] /\ frames'[k - 1] = frames[k - 1]
      BY <1>1, <1>6, <2>1
    <3>2. QED
      BY <2>1, <3>1 DEF FramesInv
  <2>2. CASE k = n + 1
    <3>1. frames'[k - 1] = Top /\ k - 2 = Top.depth
      BY <1>1, <1>6, <2>2 DEF Top
    <3>2. [of |-> frames'[k].of, how |-> frames'[k].how] = i
      BY <1>2, <1>6, <2>2 DEF Call
    <3>3. QED
      BY <3>1, <3>2
  <2>3. QED
    BY <1>1, <2>1, <2>2
<1>9. QED
  BY <1>6, <1>7, <1>8 DEF FramesInv

\* A return takes the innermost frame off, and leaves the others.
LEMMA ReturnKeepsFrames ==
  ASSUME NEW terms, FramesInv(terms), Len(frames) > 1,
         frames' = SubSeq(frames, 1, Len(frames) - 1)
  PROVE  /\ FramesInv(terms)'
         /\ Len(frames') = Len(frames) - 1
         /\ \A k \in 1..(Len(frames) - 1) : frames'[k] = frames[k]
<1> DEFINE F == [of : terms, how : Hows, depth : Nat]
           n == Len(frames)
<1>1. frames \in Seq(F) /\ n \in Nat
  BY DEF FramesInv
<1> HIDE DEF F
<1>2. /\ frames' \in Seq(F) /\ Len(frames') = n - 1
      /\ \A k \in 1..(n - 1) : frames'[k] = frames[k]
  <2>1. n - 1 \in 1..n
    BY <1>1
  <2>2. QED
    BY <1>1, <2>1, SubSeqProperties
<1>3. \A k \in 1..Len(frames') : frames'[k].depth = k - 1
  BY <1>1, <1>2 DEF FramesInv
<1>4. ASSUME NEW k \in 2..Len(frames')
      PROVE  [of |-> frames'[k].of, how |-> frames'[k].how] \in Inner(frames'[k - 1].of, k - 2)
  <2>1. k \in 2..n /\ frames'[k] = frames[k] /\ frames'[k - 1] = frames[k - 1]
    BY <1>1, <1>2
  <2>2. QED
    BY <2>1 DEF FramesInv
<1>5. QED
  BY <1>1, <1>2, <1>3, <1>4 DEF FramesInv, F

-----------------------------------------------------------------------------
\* Who asked the innermost call, for what, and within which depth.
LEMMA CallerFacts ==
  ASSUME NEW terms, FramesInv(terms), Len(frames) > 1
  PROVE  /\ Len(frames) \in Nat /\ Level = Len(frames) - 1
         /\ frames[Len(frames) - 1].of \in terms
         /\ Top.how \in {"pem", "hex", "base64"}
         /\ Top.how \in {"hex", "base64"} => Len(frames) - 2 < MaxUnwraps
         /\ Top.how = "pem" => PemHolds(frames[Len(frames) - 1].of) # {}
<1> DEFINE F == [of : terms, how : Hows, depth : Nat]
           n == Len(frames)
<1>1. frames \in Seq(F)
  BY DEF FramesInv
<1>2. n \in Nat /\ n - 1 \in 1..n /\ n \in 2..n /\ frames # <<>>
  BY <1>1
<1> HIDE DEF F
<1>3. frames[n - 1] \in F
  BY <1>1, <1>2
<1>4. frames[n - 1].of \in terms
  BY <1>3 DEF F
<1>5. [of |-> Top.of, how |-> Top.how] \in Inner(frames[n - 1].of, n - 2)
  BY <1>2 DEF FramesInv, Top
<1>6. n - 2 \in Nat
  BY <1>2
<1>7. QED
  BY <1>2, <1>4, <1>5, <1>6, InnerIsInside DEF Level

\* An answer that was right for the call is right for the caller, one layer up.
LEMMA PassedTold ==
  ASSUME NEW terms, Recognizers(terms), FramesInv(terms), FoundInv, Len(frames) > 1,
         NEW f \in found, NEW g \in Passed(frames[Len(frames) - 1], Top.how, f)
  PROVE  /\ IsFinding(g)
         /\ \A i \in DOMAIN g.wraps :
              g.wraps[i] \in {"hex", "base64"} => Len(frames) - 2 + i <= MaxUnwraps
         /\ g.what = NOT_RECOGNIZED => \A i \in DOMAIN g.wraps : g.wraps[i] = "hex"
<1> DEFINE n == Len(frames)
           t == frames[n - 1].of
           h == Top.how
<1>1. n \in Nat /\ Level = n - 1 /\ t \in terms /\ h \in {"pem", "hex", "base64"}
      /\ (h \in {"hex", "base64"} => n - 2 < MaxUnwraps) /\ (h = "pem" => PemHolds(t) # {})
  BY CallerFacts
<1>2. CASE g = Wrapped(f, h) /\ (f.what # NOT_RECOGNIZED \/ h = "hex")
  <2>1. /\ IsFinding(f)
        /\ \A i \in DOMAIN f.wraps : f.wraps[i] \in {"hex", "base64"} => n - 1 + i <= MaxUnwraps
        /\ f.what = NOT_RECOGNIZED => \A i \in DOMAIN f.wraps : f.wraps[i] = "hex"
    BY <1>1 DEF FoundInv
  <2>2. DOMAIN f.wraps \subseteq Nat
    BY <2>1 DEF IsFinding
  <2>3. /\ IsFinding(g) /\ g.what = f.what /\ g.wraps[1] = h
        /\ DOMAIN g.wraps = 1..(Len(f.wraps) + 1)
        /\ \A i \in DOMAIN g.wraps :
             i # 1 => i - 1 \in DOMAIN f.wraps /\ g.wraps[i] = f.wraps[i - 1]
    BY <1>1, <1>2, <2>1, WrappedIsFinding
  <2>4. DOMAIN g.wraps \subseteq Nat
    BY <2>3
  <2>5. ASSUME NEW i \in DOMAIN g.wraps, g.wraps[i] \in {"hex", "base64"}
        PROVE  n - 2 + i <= MaxUnwraps
    <3>1. CASE i = 1
      BY <1>1, <2>3, <2>5, <3>1 DEF MaxUnwraps
    <3>2. CASE i # 1
      <4>1. i - 1 \in DOMAIN f.wraps /\ f.wraps[i - 1] \in {"hex", "base64"}
        BY <2>3, <2>5, <3>2
      <4>2. n - 1 + (i - 1) <= MaxUnwraps
        BY <2>1, <4>1
      <4>3. QED
        BY <1>1, <2>4, <4>2 DEF MaxUnwraps
    <3>3. QED
      BY <3>1, <3>2
  <2>6. ASSUME g.what = NOT_RECOGNIZED, NEW i \in DOMAIN g.wraps
        PROVE  g.wraps[i] = "hex"
    BY <1>2, <2>1, <2>3, <2>6
  <2>7. QED
    BY <2>3, <2>5, <2>6
<1>3. CASE h = "pem" /\ g = Wrapped(LabelOf(t), "pem")
  <2>1. Tells(LabelOf(t))
    BY <1>1, <1>3 DEF Recognizers
  <2>2. /\ IsFinding(g) /\ g.what = LabelOf(t).what /\ g.wraps[1] = "pem"
        /\ \A i \in DOMAIN g.wraps :
             i # 1 => i - 1 \in DOMAIN LabelOf(t).wraps /\ g.wraps[i] = LabelOf(t).wraps[i - 1]
    BY <1>3, <2>1, WrappedIsFinding DEF Tells
  <2>3. \A i \in DOMAIN g.wraps : g.wraps[i] \in {"pem", "armor"}
    BY <2>1, <2>2 DEF Tells
  <2>4. QED
    BY <2>1, <2>2, <2>3 DEF Tells
<1>4. CASE g \in Otherwise(t)
  <2>1. /\ IsFinding(g) /\ \A i \in DOMAIN g.wraps : g.wraps[i] \in {"pem", "armor"}
        /\ g.what = NOT_RECOGNIZED => g.wraps = <<>>
    BY <1>1, <1>4, OtherwiseTold
  <2>2. QED
    BY <2>1
<1>5. QED
  BY <1>2, <1>3, <1>4 DEF Passed

LEMMA InspectAtKeepsIInv ==
  ASSUME NEW terms, Recognizers(terms), IInv(terms), InspectAt
  PROVE  IInv(terms)'
<1>1. frames # <<>> /\ found = {} /\ FramesInv(terms) /\ FoundInv
  BY DEF InspectAt, IInv
<1>2. Top.of \in terms
  BY <1>1, TopFacts
<1>3. ASSUME Recognize(Top.of) # {}, found' = Recognize(Top.of), UNCHANGED frames
      PROVE  IInv(terms)'
  <2>1. FramesInv(terms)'
    BY <1>1, <1>3 DEF FramesInv
  <2>2. AtMostOne(found') /\ \A f \in found' : Tells(f)
    BY <1>2, <1>3 DEF Recognizers
  <2>3. \A f \in found' : /\ IsFinding(f) /\ f.what # NOT_RECOGNIZED
                          /\ \A i \in DOMAIN f.wraps : f.wraps[i] \in {"pem", "armor"}
    BY <2>2 DEF Tells
  <2>4. QED
    BY <1>1, <1>3, <2>1, <2>2, <2>3 DEF IInv, FoundInv
<1>4. ASSUME NEW i \in Inner(Top.of, Top.depth), frames' = Append(frames, Call(i, Top.depth)),
             UNCHANGED found
      PROVE  IInv(terms)'
  <2>1. FramesInv(terms)' /\ Len(frames') = Len(frames) + 1
    BY <1>1, <1>4, CallKeepsFrames
  <2>2. frames' # <<>>
    BY <1>1, <2>1, TopFacts
  <2>3. QED
    BY <1>1, <1>4, <2>1, <2>2 DEF IInv, FoundInv, AtMostOne
<1>5. ASSUME found' = Otherwise(Top.of), UNCHANGED frames
      PROVE  IInv(terms)'
  <2>1. FramesInv(terms)'
    BY <1>1, <1>5 DEF FramesInv
  <2>2. AtMostOne(found')
    BY <1>2, <1>5 DEF Recognizers, Otherwise, AtMostOne
  <2>3. \A f \in found' : /\ IsFinding(f) /\ (f.what = NOT_RECOGNIZED => f.wraps = <<>>)
                          /\ \A i \in DOMAIN f.wraps : f.wraps[i] \in {"pem", "armor"}
    BY <1>2, <1>5, OtherwiseTold
  <2>4. QED
    BY <1>1, <1>5, <2>1, <2>2, <2>3 DEF IInv, FoundInv
<1>6. QED
  BY <1>3, <1>4, <1>5 DEF InspectAt

LEMMA ReturnKeepsIInv ==
  ASSUME NEW terms, Recognizers(terms), IInv(terms), Return
  PROVE  IInv(terms)' /\ found' # {}
<1> DEFINE n == Len(frames)
<1>1. n > 1 /\ FramesInv(terms) /\ FoundInv /\ frames' = SubSeq(frames, 1, n - 1)
  BY DEF Return, IInv
<1>2. FramesInv(terms)' /\ Len(frames') = n - 1
  BY <1>1, ReturnKeepsFrames
<1>3. n \in Nat /\ frames[n - 1].of \in terms
  BY <1>1, CallerFacts
<1>4. frames' # <<>> /\ Level' = n - 2
  <2>0. n \in Nat /\ n > 1 /\ Len(frames') = n - 1
    BY <1>1, <1>2, <1>3
  <2> HIDE DEF n
  <2>1. Len(frames') # 0
    BY <2>0
  <2>2. frames' # <<>>
    <3>1. Len(<<>>) = 0
      OBVIOUS
    <3>2. QED
      BY <2>1, <3>1, Zenon
  <2>3. QED
    BY <2>0, <2>2 DEF Level
<1>5. PICK f \in found : found = {f}
  BY <1>1 DEF Return, FoundInv, AtMostOne
<1>6. found' = Passed(frames[n - 1], Top.how, f)
  BY <1>5 DEF Return
<1>7. found' # {} /\ AtMostOne(found')
  BY <1>3, <1>6, PassedIsOne
<1>8. \A g \in found' :
        /\ IsFinding(g)
        /\ \A i \in DOMAIN g.wraps : g.wraps[i] \in {"hex", "base64"} => n - 2 + i <= MaxUnwraps
        /\ g.what = NOT_RECOGNIZED => \A i \in DOMAIN g.wraps : g.wraps[i] = "hex"
  BY <1>1, <1>5, <1>6, PassedTold
<1>9. FoundInv'
  BY <1>4, <1>7, <1>8 DEF FoundInv
<1>10. QED
  BY <1>2, <1>7, <1>9 DEF IInv

LEMMA ReportKeepsIInv ==
  ASSUME NEW terms, IInv(terms), Report
  PROVE  IInv(terms)'
<1>1. Len(frames) = 1 /\ found # {} /\ frames' = <<>> /\ found' = found
  BY DEF Report
<1>2. FramesInv(terms)'
  BY <1>1 DEF FramesInv
<1>3. frames # <<>> /\ Level = 0 /\ Level' = 0
  BY <1>1 DEF Level
<1>4. FoundInv'
  BY <1>1, <1>3 DEF IInv, FoundInv
<1>5. QED
  BY <1>2, <1>4 DEF IInv

LEMMA StepIInv ==
  ASSUME NEW terms, Recognizers(terms), IInv(terms), [Next]_vars
  PROVE  IInv(terms)'
<1>1. CASE InspectAt
  BY <1>1, InspectAtKeepsIInv
<1>2. CASE Return
  BY <1>2, ReturnKeepsIInv
<1>3. CASE Report
  BY <1>3, ReportKeepsIInv
<1>4. CASE UNCHANGED vars
  BY <1>4 DEF vars, IInv, FramesInv, FoundInv, Level
<1>5. QED
  BY <1>1, <1>2, <1>3, <1>4 DEF Next, Exited

LEMMA Invariance ==
  ASSUME NEW terms, Recognizers(terms)
  PROVE  Spec => []IInv(terms)
<1>1. Init => IInv(terms)
  BY InitIInv
<1>2. IInv(terms) /\ [Next]_vars => IInv(terms)'
  BY StepIInv
<1>3. QED
  BY <1>1, <1>2, PTL DEF Spec

-----------------------------------------------------------------------------
\* The calls of inspect_at under way lead from the input inwards, each for the
\* inside of the one before, at the depth of its place on the stack; and there is
\* never more than one answer.
THEOREM TypeTheorem ==
  ASSUME NEW terms, Recognizers(terms)
  PROVE  Spec => []TypeOK
<1>1. IInv(terms) => TypeOK
  <2> SUFFICES ASSUME IInv(terms) PROVE TypeOK
    OBVIOUS
  <2>1. DOMAIN frames = 1..Len(frames)
    BY DEF IInv, FramesInv
  <2>2. QED
    BY <2>1 DEF IInv, FramesInv, FoundInv, TypeOK
<1>2. QED
  BY <1>1, Invariance, PTL

\* inspect takes hex and base64 off at most twice, with PEM around or between
\* (mod.rs:80-90), and tells "not recognized" with no layer but hex.
THEOREM LayersTheorem ==
  ASSUME NEW terms, Recognizers(terms)
  PROVE  Spec => []LayersTold
<1>1. IInv(terms) => LayersTold
  BY DEF IInv, FoundInv, LayersTold, Done, Level, IsFinding, MaxUnwraps
<1>2. QED
  BY <1>1, Invariance, PTL

\* Whatever is on stdin, inspect ends: each of its steps uses up a layer or a
\* call (mod.rs:54-90), so there are never more than 2 * LayersOf(input) + 2 of them.
THEOREM EndTheorem ==
  ASSUME NEW terms, Recognizers(terms)
  PROVE  Spec => EveryStepGetsNearer
<1>1. IInv(terms) /\ [Next]_vars => [ToDo' < ToDo]_vars
  <2> SUFFICES ASSUME IInv(terms), Next PROVE ToDo' < ToDo \/ UNCHANGED vars
    OBVIOUS
  <2> DEFINE n == Len(frames)
  <2>0. FramesInv(terms) /\ IInv(terms)'
    BY StepIInv DEF IInv
  <2>1. CASE InspectAt
    <3>1. /\ frames # <<>> /\ found = {} /\ n \in Nat \ {0} /\ Top.of \in terms
          /\ Top.depth \in Nat /\ LayersOf(Top.of) \in Nat /\ ToDo = n + 2 * LayersOf(Top.of) + 1
      BY <2>0, <2>1, TopFacts DEF InspectAt, Recognizers, ToDo
    <3>2. CASE UNCHANGED frames /\ found' # {}
      <4>1. ToDo' = n
        BY <3>1, <3>2 DEF ToDo
      <4>2. QED
        BY <3>1, <4>1
    <3>3. ASSUME NEW i \in Inner(Top.of, Top.depth), frames' = Append(frames, Call(i, Top.depth)),
                 UNCHANGED found
          PROVE  ToDo' < ToDo
      <4>1. FramesInv(terms)' /\ Len(frames') = n + 1
        BY <2>0, <3>1, <3>3, CallKeepsFrames
      <4>2. i.of \in Unwrapped(Top.of)
        BY <3>1, InnerShape, InnerIsInside
      <4>3. LayersOf(i.of) \in Nat /\ LayersOf(i.of) < LayersOf(Top.of)
        BY <3>1, <4>2 DEF Recognizers
      <4>4. frames' # <<>> /\ Top' = Call(i, Top.depth)
        <5>1. frames \in Seq([of : terms, how : Hows, depth : Nat])
          BY <2>0 DEF FramesInv
        <5>2. frames'[n + 1] = Call(i, Top.depth)
          BY <3>1, <3>3, <5>1
        <5>3. Top' = Call(i, Top.depth)
          BY <4>1, <5>2 DEF Top
        <5>4. frames' # <<>>
          BY <3>1, <3>3, <5>1
        <5>5. QED
          BY <5>3, <5>4
      <4>5. ToDo' = n + 1 + 2 * LayersOf(i.of) + 1
        <5>1. Top'.of = i.of
          BY <4>4 DEF Call
        <5>2. frames' # <<>> /\ found' = {} /\ Len(frames') = n + 1
          BY <3>1, <3>3, <4>1, <4>4
        <5>3. ToDo' = Len(frames') + (2 * LayersOf(Top'.of) + 1)
          BY <5>2 DEF ToDo
        <5>4. QED
          BY <3>1, <4>3, <5>1, <5>2, <5>3
      <4>6. QED
        BY <3>1, <4>3, <4>5
    <3>4. Otherwise(Top.of) # {}
      BY DEF Otherwise
    <3>5. QED
      BY <2>1, <3>2, <3>3, <3>4 DEF InspectAt
  <2>2. CASE Return
    <3>1. n > 1 /\ found # {} /\ found' # {}
      BY <2>2, ReturnKeepsIInv DEF Return
    <3>2. n \in Nat /\ Len(frames') = n - 1
      BY <2>0, <2>2, <3>1, ReturnKeepsFrames, CallerFacts DEF Return
    <3>3. QED
      BY <3>1, <3>2 DEF ToDo
  <2>3. CASE Report
    BY <2>3 DEF Report, ToDo
  <2>4. CASE Exited
    BY <2>4 DEF Exited
  <2>5. QED
    BY <2>1, <2>2, <2>3, <2>4 DEF Next
<1>2. QED
  BY <1>1, Invariance, PTL DEF Spec, EveryStepGetsNearer

-----------------------------------------------------------------------------
\* n layers around an answer: chain[1] is the input, layers[i] is what stands
\* between chain[i] and chain[i + 1], and the last is told at once.
Nested(terms, n, chain, layers, answer) ==
  /\ n \in Nat
  /\ chain \in [1..(n + 1) -> terms]
  /\ layers \in [1..n -> {"pem", "hex", "base64"}]
  /\ \A i \in 1..n :
       /\ Recognize(chain[i]) = {}
       /\ Inner(chain[i], i - 1) = {[of |-> chain[i + 1], how |-> layers[i]]}
  /\ Recognize(chain[n + 1]) = {answer}

\* The stack is a front of the chain, and an answer has the layers left of it.
NestedInv(n, chain, layers, answer) ==
  input = chain[1] =>
    /\ Len(frames) <= n + 1
    /\ \A i \in 1..Len(frames) : frames[i].of = chain[i]
    /\ \A i \in 2..Len(frames) : frames[i].how = layers[i - 1]
    /\ \A f \in found :
         /\ f.what = answer.what /\ f.facts = answer.facts /\ f.changed = answer.changed
         /\ Len(f.wraps) = n - Level + Len(answer.wraps)
         /\ \A i \in 1..Len(f.wraps) : f.wraps[i] = (layers \o answer.wraps)[Level + i]

LEMMA NestedFacts ==
  ASSUME NEW terms, Recognizers(terms), NEW n, NEW chain, NEW layers, NEW answer,
         Nested(terms, n, chain, layers, answer)
  PROVE  /\ n \in Nat /\ layers \in Seq({"pem", "hex", "base64"}) /\ Len(layers) = n
         /\ IsFinding(answer) /\ answer.what # NOT_RECOGNIZED
         /\ layers \o answer.wraps \in Seq({"pem", "hex", "base64", "armor"})
         /\ Len(layers \o answer.wraps) = n + Len(answer.wraps)
         /\ \A i \in 1..n : (layers \o answer.wraps)[i] = layers[i]
         /\ \A i \in 1..Len(answer.wraps) : (layers \o answer.wraps)[n + i] = answer.wraps[i]
<1> DEFINE W == {"pem", "hex", "base64", "armor"}
<1>1. n \in Nat /\ layers \in [1..n -> {"pem", "hex", "base64"}] /\ chain[n + 1] \in terms
      /\ answer \in Recognize(chain[n + 1])
  BY DEF Nested
<1>2. layers \in Seq({"pem", "hex", "base64"}) /\ Len(layers) = n
  BY <1>1
<1>3. Tells(answer)
  BY <1>1 DEF Recognizers
<1>4. IsFinding(answer) /\ answer.what # NOT_RECOGNIZED /\ answer.wraps \in Seq(W)
  BY <1>3 DEF Tells, IsFinding
<1>5. layers \in Seq(W)
  BY <1>1
<1>6. /\ layers \o answer.wraps \in Seq(W)
      /\ Len(layers \o answer.wraps) = n + Len(answer.wraps)
      /\ \A i \in 1..n : (layers \o answer.wraps)[i] = layers[i]
      /\ \A i \in 1..Len(answer.wraps) : (layers \o answer.wraps)[n + i] = answer.wraps[i]
  BY <1>2, <1>4, <1>5
<1>7. QED
  BY <1>1, <1>2, <1>4, <1>6

LEMMA NestedInit ==
  ASSUME NEW terms, Recognizers(terms), NEW n, NEW chain, NEW layers, NEW answer,
         Nested(terms, n, chain, layers, answer), Init
  PROVE  NestedInv(n, chain, layers, answer)
<1>1. Len(frames) = 1 /\ frames[1].of = input /\ found = {} /\ n \in Nat
  BY NestedFacts DEF Init
<1>2. QED
  BY <1>1 DEF NestedInv

\* A call goes one layer further in, or gives the answer behind the last.
LEMMA NestedInspectAt ==
  ASSUME NEW terms, Recognizers(terms), NEW n, NEW chain, NEW layers, NEW answer,
         Nested(terms, n, chain, layers, answer),
         IInv(terms), NestedInv(n, chain, layers, answer), InspectAt
  PROVE  NestedInv(n, chain, layers, answer)'
<1> DEFINE m == Len(frames)
<1> SUFFICES ASSUME input' = chain[1] PROVE NestedInv(n, chain, layers, answer)'
  BY DEF NestedInv
<1>1. /\ frames # <<>> /\ found = {} /\ input = chain[1] /\ FramesInv(terms)
      /\ m \in Nat \ {0} /\ Top.depth = m - 1
  BY TopFacts DEF InspectAt, IInv
<1>2. n \in Nat /\ m <= n + 1 /\ Top.of = chain[m]
      /\ (\A k \in 1..m : frames[k].of = chain[k])
      /\ (\A k \in 2..m : frames[k].how = layers[k - 1])
  BY <1>1, NestedFacts DEF NestedInv, Top
<1>3. CASE m \in 1..n
  <2>1. Recognize(Top.of) = {} /\ Inner(Top.of, Top.depth) = {[of |-> chain[m + 1], how |-> layers[m]]}
    BY <1>1, <1>2, <1>3 DEF Nested
  <2>2. PICK i \in Inner(Top.of, Top.depth) : frames' = Append(frames, Call(i, Top.depth)) /\ found' = {}
    BY <1>1, <2>1 DEF InspectAt
  <2>3. i.of = chain[m + 1] /\ i.how = layers[m]
    BY <2>1, <2>2
  <2>4. frames \in Seq([of : terms, how : Hows, depth : Nat])
    BY <1>1 DEF FramesInv
  <2>5. /\ Len(frames') = m + 1 /\ frames'[m + 1] = Call(i, Top.depth)
        /\ \A k \in 1..m : frames'[k] = frames[k]
    BY <1>1, <2>2, <2>4
  <2>6. \A k \in 1..(m + 1) : frames'[k].of = chain[k]
    BY <1>1, <1>2, <2>3, <2>5 DEF Call
  <2>7. ASSUME NEW k \in 2..(m + 1) PROVE frames'[k].how = layers[k - 1]
    <3>1. CASE k \in 2..m
      BY <1>1, <1>2, <2>5, <3>1
    <3>2. CASE k = m + 1
      <4>1. k - 1 = m
        BY <1>1, <3>2
      <4>2. QED
        BY <2>3, <2>5, <3>2, <4>1 DEF Call
    <3>3. QED
      BY <1>1, <3>1, <3>2
  <2>8. m + 1 <= n + 1
    BY <1>2, <1>3
  <2>9. QED
    BY <2>2, <2>5, <2>6, <2>7, <2>8 DEF NestedInv
<1>4. CASE m = n + 1
  <2>1. Recognize(Top.of) = {answer}
    BY <1>2, <1>4 DEF Nested
  <2>2. found' = {answer} /\ frames' = frames
    BY <2>1 DEF InspectAt
  <2>3. Level' = n /\ n - n = 0
    BY <1>1, <1>2, <1>4, <2>2 DEF Level
  <2>4. IsFinding(answer)
    BY NestedFacts
  <2>5. Len(answer.wraps) \in Nat
    BY <2>4 DEF IsFinding
  <2>6. /\ Len(answer.wraps) = n - Level' + Len(answer.wraps)
        /\ \A k \in 1..Len(answer.wraps) :
             answer.wraps[k] = (layers \o answer.wraps)[Level' + k]
    <3>1. \A k \in 1..Len(answer.wraps) : answer.wraps[k] = (layers \o answer.wraps)[n + k]
      BY NestedFacts
    <3>2. Len(answer.wraps) = n - n + Len(answer.wraps)
      BY <2>3, <2>5
    <3>3. QED
      BY <2>3, <3>1, <3>2
  <2>7. QED
    BY <1>2, <2>2, <2>6 DEF NestedInv
<1>5. QED
  BY <1>1, <1>2, <1>3, <1>4

\* A return puts back the layer that its call took off.
LEMMA NestedReturn ==
  ASSUME NEW terms, Recognizers(terms), NEW n, NEW chain, NEW layers, NEW answer,
         Nested(terms, n, chain, layers, answer),
         IInv(terms), NestedInv(n, chain, layers, answer), Return
  PROVE  NestedInv(n, chain, layers, answer)'
<1> DEFINE m == Len(frames)
           all == layers \o answer.wraps
<1> SUFFICES ASSUME input' = chain[1] PROVE NestedInv(n, chain, layers, answer)'
  BY DEF NestedInv
<1>1. m > 1 /\ FramesInv(terms) /\ FoundInv /\ input = chain[1]
      /\ frames' = SubSeq(frames, 1, m - 1)
  BY DEF Return, IInv
<1>2. /\ m \in Nat /\ Level = m - 1 /\ Top.how \in {"pem", "hex", "base64"}
  BY <1>1, CallerFacts
<1>3. Len(frames') = m - 1 /\ \A k \in 1..(m - 1) : frames'[k] = frames[k]
  BY <1>1, ReturnKeepsFrames
<1>4. /\ n \in Nat /\ m <= n + 1
      /\ \A k \in 1..m : frames[k].of = chain[k]
      /\ \A k \in 2..m : frames[k].how = layers[k - 1]
  BY <1>1, NestedFacts DEF NestedInv
<1>5. Top.how = layers[m - 1]
  BY <1>1, <1>2, <1>4 DEF Top
<1>6. all[m - 1] = Top.how
  BY <1>1, <1>2, <1>4, <1>5, NestedFacts
<1>7. Level' = m - 2
  <2>1. frames' # <<>>
    <3>1. Len(frames') # 0
      BY <1>1, <1>2, <1>3
    <3>2. Len(<<>>) = 0
      OBVIOUS
    <3>3. QED
      BY <3>1, <3>2, Zenon
  <2>2. QED
    BY <1>2, <1>3, <2>1 DEF Level
<1>8. PICK f \in found : found = {f}
  BY <1>1 DEF Return, FoundInv, AtMostOne
<1>9. /\ IsFinding(f) /\ f.what = answer.what /\ f.facts = answer.facts /\ f.changed = answer.changed
      /\ Len(f.wraps) = n - (m - 1) + Len(answer.wraps)
      /\ \A i \in 1..Len(f.wraps) : f.wraps[i] = all[m - 1 + i]
  BY <1>1, <1>2, <1>8 DEF NestedInv, FoundInv
<1>10. f.what # NOT_RECOGNIZED
  BY <1>9, NestedFacts
<1> DEFINE g == Wrapped(f, Top.how)
<1>11. found' = {g}
  BY <1>8, <1>10 DEF Return, Passed
<1>12. Len(f.wraps) \in Nat /\ DOMAIN f.wraps = 1..Len(f.wraps) /\ Len(answer.wraps) \in Nat
  <2>1. IsFinding(answer)
    BY NestedFacts
  <2>2. QED
    BY <1>9, <2>1 DEF IsFinding
<1>13. /\ IsFinding(g) /\ g.what = f.what /\ g.facts = f.facts /\ g.changed = f.changed
       /\ DOMAIN g.wraps = 1..(Len(f.wraps) + 1) /\ g.wraps[1] = Top.how
       /\ \A i \in DOMAIN g.wraps :
            i # 1 => i - 1 \in DOMAIN f.wraps /\ g.wraps[i] = f.wraps[i - 1]
  BY <1>2, <1>9, WrappedIsFinding
<1> HIDE DEF g, all
<1>14. Len(g.wraps) = Len(f.wraps) + 1
  <2>1. g.wraps \in Seq({"pem", "hex", "base64", "armor"})
    BY <1>13 DEF IsFinding
  <2>2. QED
    BY <1>12, <1>13, <2>1
<1>15. ASSUME NEW i \in 1..Len(g.wraps)
       PROVE  g.wraps[i] = all[m - 2 + i]
  <2>1. CASE i = 1
    BY <1>2, <1>6, <1>13, <2>1
  <2>2. CASE i # 1
    <3>1. i - 1 \in 1..Len(f.wraps) /\ g.wraps[i] = f.wraps[i - 1]
      BY <1>12, <1>13, <1>14, <2>2
    <3>2. f.wraps[i - 1] = all[m - 1 + (i - 1)] /\ m - 1 + (i - 1) = m - 2 + i
      BY <1>2, <1>9, <1>12, <1>14, <3>1
    <3>3. QED
      BY <3>1, <3>2
  <2>3. QED
    BY <2>1, <2>2
<1>16. Len(g.wraps) = n - (m - 2) + Len(answer.wraps)
  <2>1. Len(f.wraps) = n - (m - 1) + Len(answer.wraps)
    BY <1>9
  <2>2. m \in Nat /\ n \in Nat /\ Len(answer.wraps) \in Nat
    BY <1>2, <1>4, <1>12
  <2>3. \A k, l, z \in Nat : z - (k - 1) + l + 1 = z - (k - 2) + l
    OBVIOUS
  <2> HIDE DEF m
  <2>4. n - (m - 1) + Len(answer.wraps) + 1 = n - (m - 2) + Len(answer.wraps)
    BY <2>2, <2>3
  <2>5. QED
    BY <1>14, <2>1, <2>4
<1>17. /\ Len(frames') <= n + 1
       /\ \A k \in 1..Len(frames') : frames'[k].of = chain[k]
       /\ \A k \in 2..Len(frames') : frames'[k].how = layers[k - 1]
  <2>1. m \in Nat /\ n \in Nat /\ m <= n + 1 /\ Len(frames') = m - 1
    BY <1>2, <1>3, <1>4
  <2>2. ASSUME NEW k \in 1..(m - 1)
        PROVE  frames'[k].of = chain[k] /\ (k \in 2..(m - 1) => frames'[k].how = layers[k - 1])
    <3>1. frames'[k] = frames[k] /\ k \in 1..m /\ (k \in 2..(m - 1) => k \in 2..m)
      BY <1>3, <2>1
    <3>2. QED
      BY <1>4, <3>1
  <2> HIDE DEF m
  <2>3. m - 1 <= n + 1
    BY <2>1
  <2>4. \A k \in 2..(m - 1) : k \in 1..(m - 1)
    BY <2>1
  <2>5. QED
    BY <2>1, <2>2, <2>3, <2>4
<1>18. QED
  BY <1>7, <1>9, <1>11, <1>13, <1>15, <1>16, <1>17 DEF NestedInv, all

LEMMA NestedStep ==
  ASSUME NEW terms, Recognizers(terms), NEW n, NEW chain, NEW layers, NEW answer,
         Nested(terms, n, chain, layers, answer),
         IInv(terms), NestedInv(n, chain, layers, answer), [Next]_vars
  PROVE  NestedInv(n, chain, layers, answer)'
<1>1. CASE InspectAt
  BY <1>1, NestedInspectAt
<1>2. CASE Return
  BY <1>2, NestedReturn
<1>3. CASE Report
  <2>1. /\ Len(frames) = 1 /\ frames # <<>> /\ frames' = <<>> /\ UNCHANGED <<input, found>>
    BY <1>3 DEF Report
  <2>2. Level = 0 /\ Level' = 0 /\ Len(frames') = 0 /\ n \in Nat
    BY <2>1, NestedFacts DEF Level
  <2>3. 0 <= n + 1 /\ 1..0 = {} /\ 2..0 = {}
    BY <2>2
  <2>4. QED
    BY <2>1, <2>2, <2>3 DEF NestedInv
<1>4. CASE UNCHANGED vars
  BY <1>4 DEF vars, NestedInv, Level
<1>5. QED
  BY <1>1, <1>2, <1>3, <1>4 DEF Next, Exited

\* Whatever is told of bytes as they are is told with every layer that inspect
\* takes off them, in their order, however many there are (mod.rs:94-124, 342-362).
THEOREM NestingTheorem ==
  ASSUME NEW terms, Recognizers(terms), NEW n, NEW chain, NEW layers, NEW answer,
         Nested(terms, n, chain, layers, answer)
  PROVE  Spec => [](input = chain[1] /\ Done
                      => found = {[answer EXCEPT !.wraps = layers \o @]})
<1> DEFINE Told == input = chain[1] /\ Done => found = {[answer EXCEPT !.wraps = layers \o @]}
<1>1. Init => NestedInv(n, chain, layers, answer)
  BY NestedInit
<1>2. IInv(terms) /\ NestedInv(n, chain, layers, answer) /\ [Next]_vars
        => NestedInv(n, chain, layers, answer)'
  BY NestedStep
<1>3. IInv(terms) /\ NestedInv(n, chain, layers, answer) => Told
  <2> SUFFICES ASSUME IInv(terms), NestedInv(n, chain, layers, answer), input = chain[1], Done
               PROVE  found = {[answer EXCEPT !.wraps = layers \o @]}
    OBVIOUS
  <2> DEFINE all == layers \o answer.wraps
  <2>1. Level = 0 /\ n \in Nat /\ FoundInv
    BY NestedFacts DEF Done, Level, IInv
  <2>2. PICK f \in found : found = {f}
    BY <2>1 DEF FoundInv, AtMostOne, Done
  <2>3. /\ IsFinding(f) /\ f.what = answer.what /\ f.facts = answer.facts /\ f.changed = answer.changed
        /\ Len(f.wraps) = n + Len(answer.wraps)
        /\ \A i \in 1..Len(f.wraps) : f.wraps[i] = all[i]
    <3>1. IsFinding(answer) /\ IsFinding(f)
      BY <2>1, NestedFacts DEF FoundInv
    <3>2. Len(answer.wraps) \in Nat /\ Len(f.wraps) \in Nat
      BY <3>1 DEF IsFinding
    <3>3. /\ f.what = answer.what /\ f.facts = answer.facts /\ f.changed = answer.changed
          /\ Len(f.wraps) = n - 0 + Len(answer.wraps)
          /\ \A i \in 1..Len(f.wraps) : f.wraps[i] = all[0 + i]
      <4> HIDE DEF all
      <4>1. \A i \in 1..Len(f.wraps) : f.wraps[i] = (layers \o answer.wraps)[Level + i]
        BY DEF NestedInv
      <4>2. QED
        BY <2>1, <4>1 DEF NestedInv, all
    <3> HIDE DEF all
    <3>4. QED
      BY <2>1, <3>1, <3>2, <3>3
  <2>4. all \in Seq({"pem", "hex", "base64", "armor"}) /\ Len(all) = n + Len(answer.wraps)
        /\ IsFinding(answer)
    BY NestedFacts
  <2>5. f.wraps = all
    <3> HIDE DEF all
    <3>1. f.wraps \in Seq({"pem", "hex", "base64", "armor"}) /\ Len(f.wraps) = Len(all)
      BY <2>3, <2>4 DEF IsFinding
    <3>2. QED
      BY <2>3, <2>4, <3>1
  <2>6. f = [what |-> answer.what, facts |-> answer.facts, wraps |-> all, changed |-> answer.changed]
    BY <2>3, <2>5 DEF IsFinding
  <2>7. [answer EXCEPT !.wraps = all] = f
    BY <2>4, <2>6, OneFieldChanged DEF IsFinding
  <2>8. QED
    BY <2>2, <2>7
<1>4. Spec => []NestedInv(n, chain, layers, answer)
  BY <1>1, <1>2, Invariance, PTL DEF Spec
<1>5. QED
  BY <1>3, <1>4, Invariance, PTL
=============================================================================
