------------------------- MODULE TypeLoweringProofs -------------------------
(***************************************************************************)
(* Proof that LangType never re-enters a call it is still in, and so never *)
(* overflows its stack, on every type graph whose calls descend along a    *)
(* rank (RankedCalls): the condition the pointer case (types.go:167)       *)
(* establishes for self-referencing structures, and which a named map or   *)
(* channel type that contains itself (types.go:91-98) breaks.              *)
(*                                                                         *)
(* The inductive invariant LInv: every frame stands for a call of S, and   *)
(* the ranks of the frames strictly decrease from the outermost call to    *)
(* the innermost.  Call pushes a call of the top frame, of lower rank      *)
(* still; the two returns pop the top frame and leave the others' calls    *)
(* alone.  Distinct ranks give distinct calls (NoRepeatedCall); distinct   *)
(* calls of Ty \X BOOLEAN are at most 2 * Cardinality(Ty) frames, one less *)
(* than MaxStack (StackWithinBound, by the pigeonhole principle).          *)
(***************************************************************************)
EXTENDS TypeLowering, FiniteSetTheorems, SequenceTheorems, TLAPS

(* A frame of the stack: a call and the sequence of its calls' results.    *)
IsFrame(f) == \E X : f \in [t : Ty, init : BOOLEAN, res : Seq(X)]

(* The calls LangType makes from the pairs S stay in S and descend along   *)
(* rank: the form in which the proof uses the shape of the type graph.     *)
RankedCalls(S, rank) ==
  /\ S \subseteq Ty \X BOOLEAN
  /\ rank \in [S -> Nat]
  /\ \A p \in S : \A k \in 1 .. Len(LangTypeCalls(p[1], p[2])) :
       /\ LangTypeCalls(p[1], p[2])[k] \in S
       /\ rank[LangTypeCalls(p[1], p[2])[k]] < rank[p]

LInv(S, rank) ==
  /\ \E F : stack \in Seq(F)
  /\ \A i \in 1 .. Len(stack) : IsFrame(stack[i]) /\ CallOf(stack[i]) \in S
  /\ \A i, j \in 1 .. Len(stack) :
       i < j => rank[CallOf(stack[j])] < rank[CallOf(stack[i])]

----------------------------------------------------------------------------
LEMMA InitLInv ==
  ASSUME NEW S, NEW rank, Roots \X BOOLEAN \subseteq S
  PROVE  Init => LInv(S, rank)
<1>. SUFFICES ASSUME Init PROVE LInv(S, rank)
  OBVIOUS
<1>1. PICK t \in Roots, init \in BOOLEAN : stack = << Frame(t, init) >>
  BY DEF Init
<1>2. Frame(t, init) \in [t : Ty, init : BOOLEAN, res : Seq({})]
  BY TypeGraphAssumption DEF Frame
<1>3. CallOf(Frame(t, init)) \in S
  BY DEF CallOf, Frame
<1>4. /\ stack \in Seq([t : Ty, init : BOOLEAN, res : Seq({})])
      /\ Len(stack) = 1 /\ stack[1] = Frame(t, init)
  BY <1>1, <1>2
<1>5. IsFrame(stack[1])
  BY <1>2, <1>4 DEF IsFrame
<1>6. \A i, j \in 1 .. Len(stack) : ~(i < j)
  BY <1>4
<1>. QED
  BY <1>3, <1>4, <1>5, <1>6 DEF LInv


(* The calls LangType(t, init) makes are a sequence of argument pairs.     *)
LEMMA LangTypeCallsType ==
  ASSUME NEW t \in Ty, NEW init \in BOOLEAN
  PROVE  LangTypeCalls(t, init) \in Seq(Ty \X BOOLEAN)
<1>. DEFINE d == TypeDef[t]
<1>1. /\ d.under \in Ty /\ d.key \in Ty /\ d.elems \in Seq(Ty)
      /\ \A u \in Ty : Underlying(u) \in Ty
  BY TypeGraphAssumption DEF Underlying
<1>2. [i \in 1 .. Len(d.elems) |-> <<Underlying(d.elems[i]), init>>]
        \in Seq(Ty \X BOOLEAN)
  BY <1>1
<1>3. /\ <<d.under, init>> \in Ty \X BOOLEAN
      /\ <<d.under, FALSE>> \in Ty \X BOOLEAN
      /\ <<d.key, TRUE>> \in Ty \X BOOLEAN
      /\ <<d.under, TRUE>> \in Ty \X BOOLEAN
  BY <1>1
<1>5. /\ << <<d.under, init>> >> \in Seq(Ty \X BOOLEAN)
      /\ << <<d.under, FALSE>> >> \in Seq(Ty \X BOOLEAN)
      /\ << <<d.key, TRUE>>, <<d.under, TRUE>> >> \in Seq(Ty \X BOOLEAN)
      /\ << >> \in Seq(Ty \X BOOLEAN)
  BY <1>3
<1>4. LangTypeCalls(t, init) \in
        { << <<d.under, init>> >>, << <<d.under, FALSE>> >>,
          << <<d.key, TRUE>>, <<d.under, TRUE>> >>,
          [i \in 1 .. Len(d.elems) |-> <<Underlying(d.elems[i]), init>>],
          << >> }
  BY DEF LangTypeCalls
<1>. QED
  BY <1>2, <1>5, <1>4

(* Call pushes a call of the innermost frame, of lower rank.               *)
LEMMA CallLInv ==
  ASSUME NEW S, NEW rank, RankedCalls(S, rank), LInv(S, rank), Call
  PROVE  LInv(S, rank)'
<1>. DEFINE n     == Len(stack)
            top   == stack[n]
            calls == LangTypeCalls(top.t, top.init)
            nxt   == calls[Len(top.res) + 1]
            fr    == Frame(nxt[1], nxt[2])
<1>1. PICK F : stack \in Seq(F)
  BY DEF LInv
<1>2. n \in Nat /\ n >= 1
  BY <1>1 DEF Call
<1>3. IsFrame(top) /\ CallOf(top) \in S
  BY <1>2 DEF LInv
<1>4. PICK X : top \in [t : Ty, init : BOOLEAN, res : Seq(X)]
  BY <1>3 DEF IsFrame
<1>5. calls \in Seq(Ty \X BOOLEAN)
  BY <1>4, LangTypeCallsType
<1>6. Len(top.res) + 1 \in 1 .. Len(calls)
  BY <1>4, <1>5 DEF Call, Top
<1>7. CallOf(top) = <<top.t, top.init>>
  BY DEF CallOf
<1>8. nxt \in S /\ rank[nxt] < rank[CallOf(top)]
  BY <1>3, <1>6, <1>7 DEF RankedCalls
<1>9. /\ fr \in [t : Ty, init : BOOLEAN, res : Seq({})]
      /\ CallOf(fr) = nxt
  BY <1>5, <1>6 DEF Frame, CallOf
<1>10. stack' = Append(stack, fr)
  BY DEF Call, Top
<1>11. /\ stack' \in Seq(F \cup {fr})
       /\ Len(stack') = n + 1
       /\ \A i \in 1 .. n : stack'[i] = stack[i]
       /\ stack'[n + 1] = fr
  BY <1>1, <1>10
<1>12. rank \in [S -> Nat]
  BY DEF RankedCalls
<1>13. ASSUME NEW i \in 1 .. Len(stack')
       PROVE  IsFrame(stack'[i]) /\ CallOf(stack'[i]) \in S
  <2>1. CASE i <= n
    BY <1>11, <2>1 DEF LInv
  <2>2. CASE i = n + 1
    BY <1>8, <1>9, <1>11, <2>2 DEF IsFrame
  <2>. QED
    BY <1>2, <1>11, <2>1, <2>2
<1>14. ASSUME NEW i \in 1 .. Len(stack'), NEW j \in 1 .. Len(stack'), i < j
       PROVE  rank[CallOf(stack'[j])] < rank[CallOf(stack'[i])]
  <2>1. CASE j <= n
    BY <1>11, <2>1, <1>14 DEF LInv
  <2>2. CASE j = n + 1
    <3>0. i \in 1 .. n
      BY <1>2, <1>11, <1>14, <2>2
    <3>2. rank[CallOf(stack[i])] \in Nat /\ rank[CallOf(top)] \in Nat
      BY <1>2, <1>3, <1>12, <3>0 DEF LInv
    <3>1. rank[CallOf(top)] <= rank[CallOf(stack[i])]
      <4>1. CASE i = n
        BY <3>2, <4>1
      <4>2. CASE i < n
        BY <1>2, <3>0, <3>2, <4>2 DEF LInv
      <4>. QED
        BY <3>0, <4>1, <4>2
    <3>3. /\ CallOf(stack'[j]) = nxt
          /\ CallOf(stack'[i]) = CallOf(stack[i])
      BY <1>9, <1>11, <2>2, <3>0
    <3>4. rank[nxt] \in Nat
      BY <1>8, <1>12
    <3>. QED
      BY <1>8, <3>1, <3>2, <3>3, <3>4
  <2>. QED
    BY <1>2, <1>11, <2>1, <2>2
<1>. QED
  BY <1>11, <1>13, <1>14 DEF LInv

(* Appending a result to a frame's results leaves a frame of the same call. *)
LEMMA FrameAppend ==
  ASSUME NEW X, NEW f \in [t : Ty, init : BOOLEAN, res : Seq(X)], NEW r
  PROVE  /\ [f EXCEPT !.res = Append(f.res, r)]
              \in [t : Ty, init : BOOLEAN, res : Seq(X \cup {r})]
         /\ CallOf([f EXCEPT !.res = Append(f.res, r)]) = CallOf(f)
BY DEF CallOf

(* ReturnToCaller pops the innermost frame and appends its result to the   *)
(* caller's; no frame's call changes.                                      *)
LEMMA ReturnToCallerLInv ==
  ASSUME NEW S, NEW rank, LInv(S, rank), ReturnToCaller
  PROVE  LInv(S, rank)'
<1>. DEFINE n   == Len(stack)
            r   == LangTypeResult(stack[n].t, stack[n].init, stack[n].res)
            old == stack[n - 1]
            new == [old EXCEPT !.res = Append(old.res, r)]
<1>. HIDE DEF r
<1>1. PICK F : stack \in Seq(F)
  BY DEF LInv
<1>2. n \in Nat /\ n > 1
  BY <1>1 DEF ReturnToCaller
<1>3. PICK X : old \in [t : Ty, init : BOOLEAN, res : Seq(X)]
  BY <1>2 DEF LInv, IsFrame
<1>4. /\ new \in [t : Ty, init : BOOLEAN, res : Seq(X \cup {r})]
      /\ CallOf(new) = CallOf(old)
  BY <1>3, FrameAppend, Zenon
<1>5. stack' = [SubSeq(stack, 1, n - 1) EXCEPT ![n - 1].res = Append(@, r)]
  BY DEF ReturnToCaller, Top, r
<1>. DEFINE sub == SubSeq(stack, 1, n - 1)
<1>5a. /\ sub \in Seq(F)
       /\ Len(sub) = n - 1
       /\ \A i \in 1 .. n - 1 : sub[i] = stack[i]
       /\ n - 1 \in 1 .. Len(sub)
  BY <1>1, <1>2
<1>5b. stack' = [sub EXCEPT ![n - 1] = [sub[n - 1] EXCEPT !.res = Append(sub[n - 1].res, r)]]
  BY <1>5, <1>5a
<1>5c. stack' = [sub EXCEPT ![n - 1] = new]
  BY <1>5a, <1>5b
<1>6. /\ stack' \in Seq(F \cup {new})
      /\ Len(stack') = n - 1
      /\ \A i \in 1 .. n - 2 : stack'[i] = stack[i]
      /\ stack'[n - 1] = new
  <2>1. stack' \in Seq(F \cup {new}) /\ Len(stack') = n - 1 /\ stack'[n - 1] = new
    BY <1>5a, <1>5c
  <2>2. ASSUME NEW i \in 1 .. n - 2 PROVE stack'[i] = stack[i]
    <3>1. i \in DOMAIN sub /\ i # n - 1
      BY <1>5a
    <3>2. stack'[i] = sub[i]
      BY <1>5c, <3>1
    <3>. QED
      BY <1>5a, <3>2
  <2>. QED
    BY <2>1, <2>2
<1>7. \A i \in 1 .. n - 1 : CallOf(stack'[i]) = CallOf(stack[i])
  BY <1>4, <1>6
<1>8. \A i \in 1 .. n - 1 : IsFrame(stack'[i]) /\ CallOf(stack'[i]) \in S
  <2>. SUFFICES ASSUME NEW i \in 1 .. n - 1
                PROVE  IsFrame(stack'[i]) /\ CallOf(stack'[i]) \in S
    OBVIOUS
  <2>1. CallOf(stack'[i]) \in S
    BY <1>2, <1>7 DEF LInv
  <2>2. CASE i < n - 1
    <3>1. stack'[i] = stack[i]
      BY <1>2, <1>6, <2>2
    <3>2. IsFrame(stack[i])
      BY <1>2 DEF LInv
    <3>. QED
      BY <2>1, <3>1, <3>2
  <2>3. CASE i = n - 1
    <3>1. stack'[i] = new
      BY <1>6, <2>3
    <3>2. IsFrame(new)
      BY <1>4 DEF IsFrame
    <3>. QED
      BY <2>1, <3>1, <3>2
  <2>. QED
    BY <2>1, <2>2, <2>3
<1>9. \A i, j \in 1 .. n - 1 :
        i < j => rank[CallOf(stack'[j])] < rank[CallOf(stack'[i])]
  BY <1>2, <1>7 DEF LInv
<1>. QED
  BY <1>6, <1>8, <1>9 DEF LInv

(* ReturnToDriver empties the stack.                                       *)
LEMMA ReturnToDriverLInv ==
  ASSUME NEW S, NEW rank, ReturnToDriver
  PROVE  LInv(S, rank)'
<1>1. stack' = << >>
  BY DEF ReturnToDriver
<1>2. stack' \in Seq({}) /\ Len(stack') = 0
  BY <1>1
<1>. QED
  BY <1>2 DEF LInv

LEMMA NextLInv ==
  ASSUME NEW S, NEW rank, RankedCalls(S, rank)
  PROVE  LInv(S, rank) /\ [Next]_vars => LInv(S, rank)'
<1>. SUFFICES ASSUME LInv(S, rank), [Next]_vars PROVE LInv(S, rank)'
  OBVIOUS
<1>1. CASE Call
  BY <1>1, CallLInv
<1>2. CASE ReturnToCaller
  BY <1>2, ReturnToCallerLInv
<1>3. CASE ReturnToDriver
  BY <1>3, ReturnToDriverLInv
<1>4. CASE UNCHANGED vars
  BY <1>4 DEF LInv, vars
<1>. QED
  BY <1>1, <1>2, <1>3, <1>4 DEF Next


----------------------------------------------------------------------------
(* Frames of strictly decreasing rank stand for pairwise distinct calls.   *)
LEMMA LInvNoRepeat ==
  ASSUME NEW S, NEW rank, RankedCalls(S, rank), LInv(S, rank)
  PROVE  NoRepeatedCall
<1>. SUFFICES ASSUME NEW i \in 1 .. Len(stack), NEW j \in 1 .. Len(stack), i < j,
                     CallOf(stack[i]) = CallOf(stack[j])
              PROVE  FALSE
  BY DEF NoRepeatedCall
<1>1. CallOf(stack[i]) \in S /\ rank \in [S -> Nat]
  BY DEF LInv, RankedCalls
<1>2. rank[CallOf(stack[j])] < rank[CallOf(stack[i])]
  BY DEF LInv
<1>. QED
  BY <1>1, <1>2

(* There are two values of retInitVal.                                     *)
LEMMA BooleanCard == IsFiniteSet(BOOLEAN) /\ Cardinality(BOOLEAN) = 2
<1>1. BOOLEAN = {TRUE} \cup {FALSE}
  OBVIOUS
<1>2. IsFiniteSet({TRUE}) /\ Cardinality({TRUE}) = 1
  BY FS_Singleton
<1>3. /\ IsFiniteSet({TRUE} \cup {FALSE})
      /\ Cardinality({TRUE} \cup {FALSE}) = Cardinality({TRUE}) + 1
  <2>1. FALSE \notin {TRUE}
    OBVIOUS
  <2>. QED
    BY <1>2, <2>1, FS_AddElement, Zenon
<1>. DEFINE two == Cardinality({TRUE} \cup {FALSE})  one == Cardinality({TRUE})
<1>4. two = 2
  <2>1. two = one + 1 /\ one = 1
    BY <1>2, <1>3
  <2>. HIDE DEF two, one
  <2>. QED
    BY <2>1
<1>. QED
  BY <1>1, <1>3, <1>4, Zenon

(* Pairwise distinct calls of Ty \X BOOLEAN fill at most 2 * Cardinality(Ty) *)
(* frames: a longer stack would, by the pigeonhole principle, hold one     *)
(* call twice.                                                             *)
LEMMA NoRepeatBound ==
  ASSUME NEW S, NEW rank, RankedCalls(S, rank), LInv(S, rank), NoRepeatedCall
  PROVE  StackWithinBound
<1>. DEFINE n == Len(stack)  C == Ty \X BOOLEAN
            f == [i \in 1 .. n |-> CallOf(stack[i])]
<1>1. IsFiniteSet(C) /\ Cardinality(C) = 2 * Cardinality(Ty)
      /\ Cardinality(Ty) \in Nat
  BY TypeGraphAssumption, BooleanCard, FS_Product, FS_CardinalityType
<1>2. IsFiniteSet(1 .. n) /\ Cardinality(1 .. n) = n /\ n \in Nat
  <2>1. \E F : stack \in Seq(F)
    BY DEF LInv
  <2>2. n \in Nat
    BY <2>1
  <2>. QED
    BY <2>2, FS_Interval
<1>3. f \in [1 .. n -> C]
  BY DEF LInv, RankedCalls
<1>. SUFFICES ASSUME ~(n < MaxStack) PROVE FALSE
  BY DEF StackWithinBound
<1>4. Cardinality(C) < Cardinality(1 .. n)
  BY <1>1, <1>2 DEF MaxStack
<1>. HIDE DEF f, C
<1>5. PICK x, y \in 1 .. n : x # y /\ f[x] = f[y]
  BY <1>1, <1>2, <1>3, <1>4, FS_PigeonHole
<1>. USE DEF f
<1>6. CallOf(stack[x]) = CallOf(stack[y])
  BY <1>5
<1>. QED
  <2>1. CASE x < y
    BY <1>2, <1>5, <1>6, <2>1 DEF NoRepeatedCall
  <2>2. CASE y < x
    BY <1>2, <1>5, <1>6, <2>2 DEF NoRepeatedCall
  <2>. QED
    BY <1>2, <1>5, <2>1, <2>2

----------------------------------------------------------------------------
(* Each call LangType(t, init) makes is on a component of t, or on the     *)
(* underlying type of a tuple element: the named case recurses on the      *)
(* underlying type, chan on the element, map (zero value) on key and       *)
(* element, tuple on its elements' underlying types, and the pointer,      *)
(* slice, signature, struct, array, interface, basic and Haxe-class cases  *)
(* make no call.  So on a graph whose cycles pass through an indirection,  *)
(* every call descends.                                                    *)
LEMMA CallsDescend ==
  ASSUME NEW T, NEW rank, CyclesThroughIndirections(T, rank),
         NEW t \in T, NEW init \in BOOLEAN,
         NEW k \in 1 .. Len(LangTypeCalls(t, init))
  PROVE  /\ LangTypeCalls(t, init)[k] \in T \X BOOLEAN
         /\ rank[LangTypeCalls(t, init)[k][1]] < rank[t]
<1>. DEFINE d == TypeDef[t]  c == LangTypeCalls(t, init)
<1>1. /\ t \in Ty /\ d.elems \in Seq(Ty)
      /\ rank \in [T -> Nat]
      /\ d.form \notin Indirections =>
           \A u \in Components(t) : u \in T /\ rank[u] < rank[t]
  BY TypeGraphAssumption DEF CyclesThroughIndirections
<1>2. CASE d.form = "named" /\ d.haxe = ""
  <2>0. d.form # "chan" /\ d.form # "map" /\ d.form # "tuple"
    BY <1>2
  <2>a. c = << <<d.under, init>> >>
    BY <1>2, <2>0 DEF LangTypeCalls
  <2>1. c = << <<d.under, init>> >> /\ k = 1
    BY <2>a
  <2>2. d.under \in Components(t) /\ d.form \notin Indirections
    BY <1>2 DEF Components, Indirections
  <2>. QED
    BY <1>1, <2>1, <2>2
<1>3. CASE d.form = "chan"
  <2>0. ~(d.form = "named" /\ d.haxe = "")
    BY <1>3
  <2>a. c = << <<d.under, FALSE>> >>
    BY <1>3, <2>0 DEF LangTypeCalls
  <2>1. c = << <<d.under, FALSE>> >> /\ k = 1
    BY <2>a
  <2>2. d.under \in Components(t) /\ d.form \notin Indirections
    BY <1>3 DEF Components, Indirections
  <2>3. d.under \in T /\ rank[d.under] < rank[t]
    BY <1>1, <2>2
  <2>4. c[1] = <<d.under, FALSE>> /\ c[1][1] = d.under
    BY <1>3, <2>0 DEF LangTypeCalls
  <2>5. <<d.under, FALSE>> \in T \X BOOLEAN
    BY <2>3
  <2>6. c[k] \in T \X BOOLEAN /\ c[k][1] = d.under
    BY <2>1, <2>4, <2>5, Zenon
  <2>. QED
    BY <2>3, <2>6
<1>4. CASE d.form = "map" /\ init
  <2>0. ~(d.form = "named" /\ d.haxe = "") /\ d.form # "chan"
    BY <1>4
  <2>a. c = << <<d.key, TRUE>>, <<d.under, TRUE>> >>
    BY <1>4, <2>0 DEF LangTypeCalls
  <2>1. c = << <<d.key, TRUE>>, <<d.under, TRUE>> >> /\ k \in {1, 2}
    BY <2>a
  <2>2. {d.key, d.under} \subseteq Components(t) /\ d.form \notin Indirections
    BY <1>4 DEF Components, Indirections
  <2>3. /\ d.key \in T /\ rank[d.key] < rank[t]
        /\ d.under \in T /\ rank[d.under] < rank[t]
    BY <1>1, <2>2
  <2>4. /\ c[1] = <<d.key, TRUE>> /\ c[1][1] = d.key
        /\ c[2] = <<d.under, TRUE>> /\ c[2][1] = d.under
    BY <1>4, <2>0 DEF LangTypeCalls
  <2>5. <<d.key, TRUE>> \in T \X BOOLEAN /\ <<d.under, TRUE>> \in T \X BOOLEAN
    BY <2>3
  <2>6. c[k] \in T \X BOOLEAN /\ c[k][1] \in {d.key, d.under}
    BY <2>1, <2>4, <2>5, Zenon
  <2>. QED
    BY <2>3, <2>6
<1>5. CASE d.form = "tuple"
  <2>. DEFINE e == d.elems[k]
  <2>0. ~(d.form = "named" /\ d.haxe = "") /\ d.form # "chan"
        /\ ~(d.form = "map" /\ init)
    BY <1>5
  <2>1. c = [i \in 1 .. Len(d.elems) |-> <<Underlying(d.elems[i]), init>>]
    BY <1>5, <2>0 DEF LangTypeCalls
  <2>2. k \in 1 .. Len(d.elems) /\ c[k] = <<Underlying(e), init>>
    BY <2>1
  <2>3. e \in Components(t) /\ d.form \notin Indirections
    BY <1>5, <2>2 DEF Components, Indirections
  <2>4. e \in T /\ rank[e] < rank[t]
    BY <1>1, <2>3
  <2>5. Underlying(e) \in T /\ rank[Underlying(e)] <= rank[e]
    <3>1. CASE TypeDef[e].form = "named"
      <4>1. Underlying(e) = TypeDef[e].under
        BY <3>1 DEF Underlying
      <4>2. TypeDef[e].under \in Components(e) /\ TypeDef[e].form \notin Indirections
        BY <3>1 DEF Components, Indirections
      <4>3. \A u \in Components(e) : u \in T /\ rank[u] < rank[e]
        BY <2>4, <4>2 DEF CyclesThroughIndirections
      <4>. QED
        BY <1>1, <2>4, <4>1, <4>2, <4>3
    <3>2. CASE TypeDef[e].form # "named"
      BY <1>1, <2>4, <3>2 DEF Underlying
    <3>. QED
      BY <3>1, <3>2
  <2>. QED
    BY <1>1, <2>2, <2>4, <2>5
<1>6. CASE ~(d.form = "named" /\ d.haxe = "") /\ d.form # "chan"
           /\ ~(d.form = "map" /\ init) /\ d.form # "tuple"
  <2>1. c = << >>
    BY <1>6 DEF LangTypeCalls
  <2>. QED
    BY <2>1
<1>. QED
  BY <1>2, <1>3, <1>4, <1>5, <1>6

(* On such a graph the calls from T \X BOOLEAN are ranked by their type's  *)
(* rank.                                                                   *)
LEMMA GraphRanksCalls ==
  ASSUME NEW T, NEW rank, CyclesThroughIndirections(T, rank)
  PROVE  RankedCalls(T \X BOOLEAN, [p \in T \X BOOLEAN |-> rank[p[1]]])
<1>. DEFINE crank == [p \in T \X BOOLEAN |-> rank[p[1]]]
<1>1. T \subseteq Ty /\ rank \in [T -> Nat]
  BY DEF CyclesThroughIndirections
<1>2. crank \in [T \X BOOLEAN -> Nat]
  BY <1>1
<1>3. ASSUME NEW p \in T \X BOOLEAN, NEW k \in 1 .. Len(LangTypeCalls(p[1], p[2]))
      PROVE  /\ LangTypeCalls(p[1], p[2])[k] \in T \X BOOLEAN
             /\ crank[LangTypeCalls(p[1], p[2])[k]] < crank[p]
  <2>1. /\ LangTypeCalls(p[1], p[2])[k] \in T \X BOOLEAN
        /\ rank[LangTypeCalls(p[1], p[2])[k][1]] < rank[p[1]]
    BY <1>3, CallsDescend
  <2>. QED
    BY <2>1
<1>. QED
  BY <1>1, <1>2, <1>3 DEF RankedCalls

(* Spec 4.2 and 8: on every type graph whose cycles pass through a pointer,*)
(* a slice or a function type, no call of LangType (types.go:75-188) is    *)
(* re-entered with the arguments of a call still on the stack, and the     *)
(* stack never reaches the depth of an overflow.  The pointer case         *)
(* (types.go:167) returns "null" without lowering the element, and the     *)
(* slice and signature cases make no call: that is what cuts the cycles.   *)
(* MC_TypeLowering's ASSUME shows the run's type graph is of this shape.   *)
THEOREM LoweringNeverRepeats ==
  ASSUME NEW T, NEW rank, Roots \subseteq T, CyclesThroughIndirections(T, rank)
  PROVE  Spec => [](NoRepeatedCall /\ StackWithinBound)
<1>. DEFINE S == T \X BOOLEAN  crank == [p \in S |-> rank[p[1]]]
<1>0. RankedCalls(S, crank) /\ Roots \X BOOLEAN \subseteq S
  BY GraphRanksCalls
<1>1. Init => LInv(S, crank)
  BY <1>0, InitLInv
<1>2. LInv(S, crank) /\ [Next]_vars => LInv(S, crank)'
  BY <1>0, NextLInv
<1>3. LInv(S, crank) => NoRepeatedCall /\ StackWithinBound
  BY <1>0, LInvNoRepeat, NoRepeatBound
<1>. HIDE DEF S, crank
<1>. QED
  BY <1>1, <1>2, <1>3, PTL DEF Spec

=============================================================================
