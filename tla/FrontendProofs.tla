--------------------------- MODULE FrontendProofs ---------------------------
(***************************************************************************)
(* Proofs about Frontend.  First, the stack follows the calls: nothing is  *)
(* used there of the grammars nor of the plans of the visit functions.     *)
(* Then the casts hold and the tree takes what is created: for that, every *)
(* plan is gone through, to see that a visit ends up only where            *)
(* FrontendContexts says, and that what it adds there can be added.        *)
(***************************************************************************)
EXTENDS GrammarProofs

IsSeq(s) == s \in Seq({s[i] : i \in DOMAIN s})

Objects(s) ==
  /\ IsSeq(s)
  /\ \A i \in 1..Len(s) : s[i] = V!Object(s[i].class, s[i].free)

Frames(fs) ==
  /\ IsSeq(fs) /\ Len(fs) >= 1
  /\ \A i \in 1..Len(fs) :
       /\ fs[i].height \in Nat
       /\ fs[i] = [height |-> fs[i].height, opens |-> fs[i].opens,
                   todo |-> fs[i].todo, text |-> fs[i].text,
                   returns |-> fs[i].returns, casts |-> fs[i].casts,
                   after |-> fs[i].after]

(* Each visit found the stack as the one before it left it, those before    *)
(* that one included, and what it pushed is where it found the end.         *)
Chain(fs, s) ==
  /\ Len(s) = fs[Len(fs)].height + Opens(fs[Len(fs)])
  /\ fs[1].height = 0 /\ fs[1].opens = "none"
  /\ \A i \in 1..(Len(fs) - 1) :
       fs[i + 1].height = fs[i].height + Opens(fs[i])
  /\ \A i, j \in 1..Len(fs) :
       i < j => fs[i].height + Opens(fs[i]) <= fs[j].height
  /\ \A i \in 1..Len(fs) :
       fs[i].opens # "none" => s[fs[i].height + 1].class = fs[i].opens

IInv ==
  /\ Frames(frames) /\ Objects(stack) /\ Chain(frames, stack)
  /\ outcome = "done" => Len(frames) = 1

(* t is s but for the places of the object on top. *)
TopOnly(s, t) ==
  /\ Objects(t) /\ Len(t) = Len(s)
  /\ \A i \in 1..Len(s) : t[i].class = s[i].class
  /\ \A i \in 1..(Len(s) - 1) : t[i] = s[i]
-----------------------------------------------------------------------------
LEMMA SeqFacts ==
  ASSUME NEW s, IsSeq(s)
  PROVE  Len(s) \in Nat /\ DOMAIN s = 1..Len(s)
BY DEF IsSeq

LEMMA OwnRange ==
  ASSUME NEW S, NEW s \in Seq(S)
  PROVE  IsSeq(s)
BY DEF IsSeq

LEMMA AppendFacts ==
  ASSUME NEW s, IsSeq(s), NEW e
  PROVE  /\ IsSeq(Append(s, e)) /\ Len(Append(s, e)) = Len(s) + 1
         /\ \A i \in 1..Len(s) : Append(s, e)[i] = s[i]
         /\ Append(s, e)[Len(s) + 1] = e
<1>. DEFINE S == {s[i] : i \in DOMAIN s} \cup {e}
            t == Append(s, e)
<1>1. s \in Seq(S) /\ e \in S
  BY SeqFacts DEF IsSeq
<1>. HIDE DEF S
<1>2. /\ t \in Seq(S) /\ Len(t) = Len(s) + 1
      /\ \A i \in 1..Len(s) : t[i] = s[i]
      /\ t[Len(s) + 1] = e
  BY <1>1, AppendProperties
<1>3. IsSeq(t)
  BY <1>2, OwnRange
<1>. QED BY <1>2, <1>3

LEMMA FrontFacts ==
  ASSUME NEW s, IsSeq(s), NEW n \in 0..Len(s)
  PROVE  /\ IsSeq(SubSeq(s, 1, n)) /\ Len(SubSeq(s, 1, n)) = n
         /\ \A i \in 1..n : SubSeq(s, 1, n)[i] = s[i]
<1>. DEFINE S == {s[i] : i \in DOMAIN s}
            t == SubSeq(s, 1, n)
<1>1. n \in Int /\ \A i \in 1..n : s[i] \in S
  BY SeqFacts
<1>. HIDE DEF S
<1>2. t \in Seq(S) /\ Len(t) = n /\ \A i \in 1..n : t[i] = s[i]
  <2>1. /\ t \in Seq(S)
        /\ Len(t) = IF 1 <= n THEN n - 1 + 1 ELSE 0
        /\ \A i \in 1..(n - 1 + 1) : t[i] = s[1 + i - 1]
    BY <1>1, SubSeqProperties, 1 \in Int
  <2>. HIDE DEF t
  <2>. QED BY <2>1, <1>1
<1>3. IsSeq(t)
  BY <1>2, OwnRange
<1>. QED BY <1>2, <1>3

LEMMA ChangeFacts ==
  ASSUME NEW s, IsSeq(s), NEW k \in 1..Len(s), NEW e,
         NEW t, t = [s EXCEPT ![k] = e]
  PROVE  /\ IsSeq(t) /\ Len(t) = Len(s)
         /\ \A i \in 1..Len(s) : t[i] = IF i = k THEN e ELSE s[i]
<1>. DEFINE S == {s[i] : i \in DOMAIN s} \cup {e}
<1>1. s \in Seq(S) /\ e \in S
  BY SeqFacts DEF IsSeq
<1>. HIDE DEF S
<1>2. /\ t \in Seq(S) /\ Len(t) = Len(s)
      /\ \A i \in 1..Len(s) : t[i] = IF i = k THEN e ELSE s[i]
  BY <1>1, ExceptSeq
<1>3. IsSeq(t)
  BY <1>2, OwnRange
<1>. QED BY <1>2, <1>3

LEMMA OpensFacts ==
  ASSUME NEW f
  PROVE  /\ Opens(f) \in 0..1
         /\ Opens(f) = 0 <=> f.opens = "none"
BY DEF Opens
-----------------------------------------------------------------------------
(* Filling a place of the object on top changes nothing else.               *)
LEMMA Filling ==
  ASSUME NEW s, Objects(s), s # <<>>
  PROVE  TopOnly(s, [s EXCEPT ![Len(s)] = Served(s[Len(s)])])
<1>. DEFINE n == Len(s)
            e == Served(s[n])
<1>1. IsSeq(s) /\ n \in Nat /\ n \in 1..Len(s)
  <2>1. IsSeq(s) /\ n \in Nat /\ s \in Seq({s[i] : i \in DOMAIN s})
    BY SeqFacts DEF Objects, IsSeq
  <2>. QED BY <2>1
<1>. HIDE DEF n
<1>2. e = V!Object(e.class, e.free) /\ e.class = s[n].class
  BY DEF V!Object, Served
<1>. HIDE DEF e
<1>. DEFINE t == [s EXCEPT ![n] = e]
<1>3. /\ IsSeq(t) /\ Len(t) = Len(s)
      /\ \A i \in 1..Len(s) : t[i] = IF i = n THEN e ELSE s[i]
  BY <1>1, ChangeFacts
<1>. HIDE DEF t
<1>4. TopOnly(s, t)
  BY <1>1, <1>2, <1>3 DEF TopOnly, Objects, n
<1>. QED BY <1>4 DEF t, n, e

LEMMA Keeping ==
  ASSUME NEW s, Objects(s)
  PROVE  TopOnly(s, s)
BY DEF TopOnly

LEMMA AddingFacts ==
  ASSUME NEW s, Objects(s), NEW how,
         s = <<>> => how \notin {"first", "second", "value", "left", "right"}
  PROVE  TopOnly(s, AddedTo(s, how))
BY Filling, Keeping DEF AddedTo

LEMMA AssigningFacts ==
  ASSUME NEW s, Objects(s), NEW place
  PROVE  TopOnly(s, Assigned(s, place))
BY Filling, Keeping DEF Assigned
-----------------------------------------------------------------------------
(* Going on to the next item changes no frame's height, nor what it opened. *)
LEMMA PoppedFacts ==
  ASSUME NEW fs, Frames(fs), NEW x
  PROVE  LET gs == [fs EXCEPT ![Len(fs)].todo = x]
         IN  /\ Frames(gs) /\ Len(gs) = Len(fs)
             /\ \A i \in 1..Len(fs) : /\ gs[i].height = fs[i].height
                                      /\ gs[i].opens = fs[i].opens
<1>. DEFINE gs == [fs EXCEPT ![Len(fs)].todo = x]
            n == Len(fs)
            e == Frame(fs[n].height, fs[n].opens, x,
                       fs[n].text, fs[n].returns, fs[n])
<1>1. IsSeq(fs) /\ n \in Nat /\ n \in 1..Len(fs)
  BY SeqFacts DEF Frames
<1>2. [fs[n] EXCEPT !.todo = x] = e
  <2>1. \A f, y :
          f = [height |-> f.height, opens |-> f.opens, todo |-> f.todo,
               text |-> f.text, returns |-> f.returns, casts |-> f.casts,
               after |-> f.after]
          => [f EXCEPT !.todo = y] =
               [height |-> f.height, opens |-> f.opens, todo |-> y,
                text |-> f.text, returns |-> f.returns, casts |-> f.casts,
                after |-> f.after]
    OBVIOUS
  <2>. QED BY <2>1, <1>1, Zenon DEF Frames, Frame
<1>3. /\ e.height = fs[n].height /\ e.opens = fs[n].opens
      /\ e.height \in Nat
      /\ e = [height |-> e.height, opens |-> e.opens, todo |-> e.todo,
              text |-> e.text, returns |-> e.returns, casts |-> e.casts,
              after |-> e.after]
  BY <1>1 DEF Frames, Frame
<1>4. gs = [fs EXCEPT ![n] = e]
  BY <1>2, Zenon DEF gs
<1>. HIDE DEF e, n, gs
<1>. DEFINE t == [fs EXCEPT ![n] = e]
<1>5. /\ IsSeq(t) /\ Len(t) = Len(fs)
      /\ \A i \in 1..Len(fs) : t[i] = IF i = n THEN e ELSE fs[i]
  BY <1>1, ChangeFacts
<1>. HIDE DEF t
<1>6. \A i \in 1..Len(fs) : /\ t[i].height = fs[i].height
                            /\ t[i].opens = fs[i].opens
  BY <1>1, <1>3, <1>5
<1>7. Frames(t)
  BY <1>1, <1>3, <1>5 DEF Frames
<1>8. /\ Frames(gs) /\ Len(gs) = Len(fs)
      /\ \A i \in 1..Len(fs) : /\ gs[i].height = fs[i].height
                               /\ gs[i].opens = fs[i].opens
  BY <1>4, <1>5, <1>6, <1>7 DEF t
<1>. QED BY <1>8, Zenon DEF gs

(* What does not move the ends of the visits leaves the chain.              *)
LEMMA ChainKept ==
  ASSUME NEW fs, Frames(fs), NEW gs, Frames(gs), Len(gs) = Len(fs),
         \A i \in 1..Len(fs) : /\ gs[i].height = fs[i].height
                               /\ gs[i].opens = fs[i].opens,
         NEW s, Objects(s), Chain(fs, s), NEW t, TopOnly(s, t)
  PROVE  Chain(gs, t)
<1>. DEFINE n == Len(fs)
<1>1. n \in Nat /\ n \in 1..n /\ 1 \in 1..n
  BY SeqFacts DEF Frames
<1>2. \A i \in 1..n : Opens(gs[i]) = Opens(fs[i])
  BY DEF Opens
<1>3. \A i \in 1..n : fs[i].opens # "none" => fs[i].height + 1 \in 1..Len(s)
  <2>. SUFFICES ASSUME NEW i \in 1..n, fs[i].opens # "none"
                PROVE  fs[i].height + 1 \in 1..Len(s)
    OBVIOUS
  <2>1. Opens(fs[i]) = 1 /\ Opens(fs[n]) \in Nat
    BY DEF Opens
  <2>2. fs[i].height \in Nat /\ fs[n].height \in Nat
    BY <1>1 DEF Frames
  <2>3. Len(s) = fs[n].height + Opens(fs[n])
    BY DEF Chain
  <2>4. i = n \/ fs[i].height + Opens(fs[i]) <= fs[n].height
    BY <1>1 DEF Chain
  <2>. QED BY <2>1, <2>2, <2>3, <2>4
<1>4. Len(t) = Len(s) /\ \A i \in 1..Len(s) : t[i].class = s[i].class
  BY DEF TopOnly
<1>5. Len(t) = gs[Len(gs)].height + Opens(gs[Len(gs)])
  BY <1>1, <1>2, <1>4 DEF Chain
<1>6. \A i \in 1..(Len(gs) - 1) :
        gs[i + 1].height = gs[i].height + Opens(gs[i])
  BY <1>1, <1>2 DEF Chain
<1>7. \A i, j \in 1..Len(gs) :
        i < j => gs[i].height + Opens(gs[i]) <= gs[j].height
  BY <1>2 DEF Chain
<1>8. \A i \in 1..Len(gs) :
        gs[i].opens # "none" => t[gs[i].height + 1].class = gs[i].opens
  BY <1>3, <1>4 DEF Chain
<1>. QED BY <1>1, <1>5, <1>6, <1>7, <1>8 DEF Chain

(* A visit that is called finds its object, if it pushes one, on top.       *)
LEMMA ChainExtended ==
  ASSUME NEW fs, Frames(fs), NEW s, Objects(s), Chain(fs, s),
         NEW f, Frames(Append(fs, f)), f.height = Len(s),
         NEW t, Len(t) = Len(s) + Opens(f),
         \A i \in 1..Len(s) : t[i] = s[i],
         f.opens # "none" => t[Len(s) + 1].class = f.opens
  PROVE  Chain(Append(fs, f), t)
<1>. DEFINE n == Len(fs)
            gs == Append(fs, f)
<1>1. n \in Nat /\ n \in 1..n /\ 1 \in 1..n
  BY SeqFacts DEF Frames
<1>2. Len(gs) = n + 1 /\ gs[n + 1] = f /\ \A i \in 1..n : gs[i] = fs[i]
  BY AppendFacts DEF Frames
<1>. HIDE DEF gs
<1>3. Len(s) \in Nat /\ Len(s) = fs[n].height + Opens(fs[n])
  BY SeqFacts DEF Chain, Objects
<1>4. \A i \in 1..n : /\ fs[i].height \in Nat /\ Opens(fs[i]) \in 0..1
                      /\ fs[i].height + Opens(fs[i]) <= Len(s)
  <2>. SUFFICES ASSUME NEW i \in 1..n
                PROVE  /\ fs[i].height \in Nat /\ Opens(fs[i]) \in 0..1
                       /\ fs[i].height + Opens(fs[i]) <= Len(s)
    OBVIOUS
  <2>1. /\ fs[i].height \in Nat /\ Opens(fs[i]) \in 0..1
        /\ fs[n].height \in Nat /\ Opens(fs[n]) \in 0..1
    BY <1>1, OpensFacts DEF Frames
  <2>2. i = n \/ fs[i].height + Opens(fs[i]) <= fs[n].height
    BY <1>1 DEF Chain
  <2>. QED BY <2>1, <2>2, <1>3
<1>5. Len(t) = gs[Len(gs)].height + Opens(gs[Len(gs)])
  BY <1>2
<1>6. gs[1].height = 0 /\ gs[1].opens = "none"
  BY <1>1, <1>2 DEF Chain
<1>7. \A i \in 1..(Len(gs) - 1) :
        gs[i + 1].height = gs[i].height + Opens(gs[i])
  <2>. SUFFICES ASSUME NEW i \in 1..n
                PROVE  gs[i + 1].height = gs[i].height + Opens(gs[i])
    BY <1>1, <1>2
  <2>1. CASE i = n
    BY <2>1, <1>1, <1>2, <1>3
  <2>2. CASE i # n
    <3>1. i \in 1..(n - 1) /\ i + 1 \in 1..n
      BY <2>2, <1>1
    <3>. QED BY <3>1, <1>2 DEF Chain
  <2>. QED BY <2>1, <2>2
<1>8. \A i, j \in 1..Len(gs) :
        i < j => gs[i].height + Opens(gs[i]) <= gs[j].height
  <2>. SUFFICES ASSUME NEW i \in 1..(n + 1), NEW j \in 1..(n + 1), i < j
                PROVE  gs[i].height + Opens(gs[i]) <= gs[j].height
    BY <1>2
  <2>1. i \in 1..n /\ gs[i] = fs[i]
    BY <1>1, <1>2
  <2>2. CASE j = n + 1
    BY <2>1, <2>2, <1>2, <1>4
  <2>3. CASE j # n + 1
    <3>1. j \in 1..n /\ gs[j] = fs[j]
      BY <2>3, <1>1, <1>2
    <3>. QED BY <2>1, <3>1 DEF Chain
  <2>. QED BY <2>2, <2>3
<1>9. \A i \in 1..Len(gs) :
        gs[i].opens # "none" => t[gs[i].height + 1].class = gs[i].opens
  <2>. SUFFICES ASSUME NEW i \in 1..(n + 1), gs[i].opens # "none"
                PROVE  t[gs[i].height + 1].class = gs[i].opens
    BY <1>2
  <2>1. CASE i = n + 1
    BY <2>1, <1>2
  <2>2. CASE i # n + 1
    <3>1. i \in 1..n /\ gs[i] = fs[i]
      BY <2>2, <1>1, <1>2
    <3>2. Opens(fs[i]) = 1
      BY <3>1 DEF Opens
    <3>3. fs[i].height + 1 \in 1..Len(s)
      BY <3>1, <3>2, <1>3, <1>4
    <3>. QED BY <3>1, <3>3 DEF Chain
  <2>. QED BY <2>1, <2>2
<1>. QED BY <1>5, <1>6, <1>7, <1>8, <1>9 DEF Chain, gs

(* A visit that returns leaves the stack as it was when it was called.      *)
LEMMA ChainShortened ==
  ASSUME NEW fs, Frames(fs), Len(fs) > 1, NEW s, Objects(s), Chain(fs, s)
  PROVE  LET gs == SubSeq(fs, 1, Len(fs) - 1)
             t == SubSeq(s, 1, Len(s) - Opens(fs[Len(fs)]))
         IN  /\ Len(s) - Opens(fs[Len(fs)]) \in 0..Len(s)
             /\ Frames(gs) /\ Objects(t) /\ Chain(gs, t)
<1>. DEFINE n == Len(fs)
            k == Len(s) - Opens(fs[n])
            gs == SubSeq(fs, 1, n - 1)
            t == SubSeq(s, 1, k)
<1>1. n \in Nat /\ n \in 1..n /\ 1 \in 1..(n - 1) /\ n - 1 \in 0..n
  BY SeqFacts DEF Frames
<1>2. /\ IsSeq(gs) /\ Len(gs) = n - 1
      /\ \A i \in 1..(n - 1) : gs[i] = fs[i]
  BY <1>1, FrontFacts DEF Frames
<1>3. Len(s) \in Nat /\ fs[n].height \in Nat /\ Opens(fs[n]) \in 0..1
  BY <1>1, SeqFacts, OpensFacts DEF Objects, Frames
<1>4. k = fs[n].height /\ k \in 0..Len(s)
  BY <1>3 DEF Chain
<1>5. IsSeq(t) /\ Len(t) = k /\ \A i \in 1..k : t[i] = s[i]
  BY <1>4, FrontFacts DEF Objects
<1>. HIDE DEF gs, t, k
<1>6. Frames(gs)
  BY <1>1, <1>2 DEF Frames
<1>7. Objects(t)
  BY <1>4, <1>5 DEF Objects
<1>8. Chain(gs, t)
  <2>1. Len(t) = gs[Len(gs)].height + Opens(gs[Len(gs)])
    <3>1. n - 1 \in 1..(n - 1)
      BY <1>1
    <3>2. fs[(n - 1) + 1].height = fs[n - 1].height + Opens(fs[n - 1])
      BY <3>1 DEF Chain
    <3>. QED BY <3>1, <3>2, <1>1, <1>2, <1>4, <1>5
  <2>2. gs[1].height = 0 /\ gs[1].opens = "none"
    BY <1>1, <1>2 DEF Chain
  <2>3. \A i \in 1..(Len(gs) - 1) :
          gs[i + 1].height = gs[i].height + Opens(gs[i])
    BY <1>1, <1>2 DEF Chain
  <2>4. \A i, j \in 1..Len(gs) :
          i < j => gs[i].height + Opens(gs[i]) <= gs[j].height
    <3>. SUFFICES ASSUME NEW i \in 1..(n - 1), NEW j \in 1..(n - 1), i < j
                  PROVE  fs[i].height + Opens(fs[i]) <= fs[j].height
      BY <1>2
    <3>. i \in 1..n /\ j \in 1..n
      BY <1>1
    <3>. QED BY DEF Chain
  <2>5. \A i \in 1..Len(gs) :
          gs[i].opens # "none" => t[gs[i].height + 1].class = gs[i].opens
    <3>. SUFFICES ASSUME NEW i \in 1..(n - 1), fs[i].opens # "none"
                  PROVE  t[fs[i].height + 1].class = fs[i].opens
      BY <1>2
    <3>1. i \in 1..n /\ i < n
      BY <1>1
    <3>2. fs[i].height \in Nat /\ Opens(fs[i]) = 1
      BY <3>1 DEF Frames, Opens
    <3>3. fs[i].height + Opens(fs[i]) <= fs[n].height
      BY <3>1, <1>1 DEF Chain
    <3>4. fs[i].height + 1 \in 1..k
      BY <3>2, <3>3, <1>3, <1>4
    <3>. QED BY <3>1, <3>4, <1>5 DEF Chain
  <2>. QED BY <2>1, <2>2, <2>3, <2>4, <2>5 DEF Chain
<1>. QED BY <1>4, <1>6, <1>7, <1>8 DEF gs, t, k
-----------------------------------------------------------------------------
TopChanges ==
  \A i \in 1..Len(stack) :
    (i < Len(stack) /\ i < Len(stack')) => stack'[i] = stack[i]

LEMMA InitHolds == Init => IInv
<1>. SUFFICES ASSUME Init PROVE IInv
  OBVIOUS
<1>. DEFINE f == Frame(0, "none", <<V!Accept("netlist")>>, FALSE, "null",
                       V!Visit(<<>>, {}))
<1>1. frames = <<f>> /\ stack = <<>> /\ outcome = "parsing"
  BY DEF Init
<1>2. /\ f.height = 0 /\ f.opens = "none"
      /\ f = [height |-> f.height, opens |-> f.opens, todo |-> f.todo,
              text |-> f.text, returns |-> f.returns, casts |-> f.casts,
              after |-> f.after]
  BY DEF Frame
<1>. HIDE DEF f
<1>3. IsSeq(<<f>>) /\ IsSeq(<<>>)
  <2>1. <<f>> \in Seq({f}) /\ <<>> \in Seq({f})
    OBVIOUS
  <2>. QED BY <2>1, OwnRange
<1>4. Frames(frames) /\ Objects(stack)
  BY <1>1, <1>2, <1>3 DEF Frames, Objects
<1>5. Chain(frames, stack)
  BY <1>1, <1>2 DEF Chain, Opens
<1>. QED BY <1>1, <1>4, <1>5 DEF IInv

LEMMA Still ==
  ASSUME IInv, frames' = frames, stack' = stack,
         outcome' = "done" => Len(frames) = 1
  PROVE  IInv' /\ TopChanges
BY DEF IInv, TopChanges, Frames, Objects, Chain, IsSeq, Opens

(* A frontend that fails leaves everything where it is.                     *)
LEMMA FailStep ==
  ASSUME IInv, NEW how, how # "done", NEW a, Fail(how, a)
  PROVE  IInv' /\ TopChanges
BY Still DEF Fail

LEMMA ReadingStep ==
  ASSUME IInv, outcome = "parsing", NEW w, Reading(w)
  PROVE  IInv' /\ TopChanges
<1>. DEFINE item == Head(Top.todo)
            how == Failure(item.lacking)
<1>1. \/ frames' = Popped /\ stack' = stack /\ outcome' = outcome
      \/ Fail(how, NotAdded)
  BY DEF Reading
<1>2. how # "done"
  BY DEF Failure
<1>. HIDE DEF how
<1>3. CASE Fail(how, NotAdded)
  BY <1>2, <1>3, FailStep
<1>4. CASE frames' = Popped /\ stack' = stack /\ outcome' = outcome
  <2>1. /\ Frames(frames') /\ Len(frames') = Len(frames)
        /\ \A i \in 1..Len(frames) : /\ frames'[i].height = frames[i].height
                                     /\ frames'[i].opens = frames[i].opens
    <3>1. /\ Frames(Popped) /\ Len(Popped) = Len(frames)
          /\ \A i \in 1..Len(frames) : /\ Popped[i].height = frames[i].height
                                       /\ Popped[i].opens = frames[i].opens
      BY PoppedFacts, Zenon DEF Popped, IInv
    <3>. QED BY <3>1, <1>4
  <2>2. TopOnly(stack, stack')
    BY <1>4, Keeping DEF IInv
  <2>3. Chain(frames', stack')
    BY <2>1, <2>2, ChainKept DEF IInv
  <2>4. Objects(stack') /\ TopChanges
    BY <1>4 DEF IInv, TopChanges
  <2>5. IInv'
    BY <1>4, <2>1, <2>3, <2>4
       DEF IInv, Frames, Objects, Chain, IsSeq, Opens
  <2>. QED BY <2>4, <2>5
<1>. QED BY <1>1, <1>3, <1>4

(* Where there is no parent, nothing takes a place.                         *)
LEMMA NoPlaceWithoutParent ==
  ASSUME NEW c
  PROVE  Reception(V!Nothing, c) = "root"
<1>1. V!Nothing.class = "none"
  BY DEF V!Nothing, V!Object
<1>. QED BY <1>1 DEF Reception, Scopes

LEMMA VisitingStep ==
  ASSUME IInv, outcome = "parsing", NEW w, NEW long, Visiting(w, long)
  PROVE  IInv' /\ TopChanges
<1>. DEFINE item == Head(Top.todo)
<1>0. PICK p \in Plans(item, w) : Following(item, p, Relevant(item, p), w, long)
  BY DEF Visiting
<1>. DEFINE text == Top.text \/ item.text
            todo == Relevant(item, p)
            opens == p.opens.class
            c == IF opens # "none" /\ p.attached THEN opens ELSE p.adds
            a == IF c = "none" THEN NotAdded ELSE AddToParent(c)
            named == Assigned(AddedTo(stack, a.how), p.sets)
            f == Frame(Len(stack), opens, todo, text,
                       Awaited(Returning(p, w, todo)), p)
            o == V!Object(opens, p.opens.free)
<1>1. \/ \E how : how # "done" /\ \E b : Fail(how, b)
      \/ /\ frames' = Append(Popped, f)
         /\ stack' = IF opens = "none" THEN named ELSE Append(named, o)
         /\ outcome' = outcome
  <2>1. \A x : Failure(x) # "done"
    BY DEF Failure
  <2>2. \A x \in Failures : x # "done"
    BY DEF Failures
  <2>3. Following(item, p, todo, w, long)
    BY <1>0
  <2>. QED BY <2>1, <2>2, <2>3, Zenon DEF Following
<1>2. CASE \E how : how # "done" /\ \E b : Fail(how, b)
  BY <1>2, FailStep
<1>3. CASE /\ frames' = Append(Popped, f)
           /\ stack' = IF opens = "none" THEN named ELSE Append(named, o)
           /\ outcome' = outcome
  <2>1. /\ Frames(Popped) /\ Len(Popped) = Len(frames)
        /\ \A i \in 1..Len(frames) : /\ Popped[i].height = frames[i].height
                                     /\ Popped[i].opens = frames[i].opens
    BY PoppedFacts, Zenon DEF Popped, IInv
  <2>2. stack = <<>> =>
          a.how \notin {"first", "second", "value", "left", "right"}
    <3>1. NotAdded.how = "none"
      BY DEF NotAdded
    <3>2. stack = <<>> => AddToParent(c).how = "root"
      BY NoPlaceWithoutParent DEF AddToParent, Back
    <3>. HIDE DEF c
    <3>. QED BY <3>1, <3>2
  <2>3. /\ f.height = Len(stack) /\ f.opens = opens
        /\ f = [height |-> f.height, opens |-> f.opens, todo |-> f.todo,
                text |-> f.text, returns |-> f.returns, casts |-> f.casts,
                after |-> f.after]
    BY DEF Frame
  <2>4. o.class = opens /\ o = V!Object(o.class, o.free)
    BY DEF V!Object
  <2>. HIDE DEF opens, f, o, a
  <2>5. TopOnly(stack, named)
    <3>1. TopOnly(stack, AddedTo(stack, a.how))
      BY <2>2, AddingFacts DEF IInv
    <3>2. TopOnly(AddedTo(stack, a.how), named)
      BY <3>1, AssigningFacts DEF TopOnly
    <3>. QED BY <3>1, <3>2 DEF TopOnly
  <2>. HIDE DEF named
  <2>6. /\ Objects(named) /\ IsSeq(named) /\ Len(named) = Len(stack)
        /\ Len(stack) \in Nat
        /\ \A i \in 1..(Len(stack) - 1) : named[i] = stack[i]
    BY <2>5, SeqFacts DEF TopOnly, Objects, IInv
  <2>7. /\ Objects(stack') /\ Len(stack') = Len(named) + Opens(f)
        /\ \A i \in 1..Len(named) : stack'[i] = named[i]
        /\ f.opens # "none" => stack'[Len(named) + 1].class = f.opens
    <3>1. CASE opens = "none"
      BY <3>1, <1>3, <2>3, <2>6 DEF Opens
    <3>2. CASE opens # "none"
      <4>1. stack' = Append(named, o) /\ Opens(f) = 1
        BY <3>2, <1>3, <2>3 DEF Opens
      <4>2. /\ IsSeq(stack') /\ Len(stack') = Len(named) + 1
            /\ \A i \in 1..Len(named) : stack'[i] = named[i]
            /\ stack'[Len(named) + 1] = o
        BY <4>1, <2>6, AppendFacts
      <4>3. Objects(stack')
        BY <4>2, <2>4, <2>6 DEF Objects
      <4>. QED BY <4>1, <4>2, <4>3, <2>3, <2>4
    <3>. QED BY <3>1, <3>2
  <2>8. Frames(frames') /\ frames' = Append(Popped, f)
    <3>1. IsSeq(Popped)
      BY <2>1 DEF Frames
    <3>2. /\ IsSeq(frames') /\ Len(frames') = Len(Popped) + 1
          /\ \A i \in 1..Len(Popped) : frames'[i] = Popped[i]
          /\ frames'[Len(Popped) + 1] = f
      BY <3>1, <1>3, AppendFacts
    <3>3. f.height \in Nat /\ Len(Popped) \in Nat
      BY <2>3, <2>6, <3>1, SeqFacts
    <3>. HIDE DEF Popped
    <3>. QED BY <1>3, <2>1, <2>3, <3>2, <3>3 DEF Frames
  <2>9. Chain(frames', stack')
    <3>1. Chain(Popped, named)
      BY <2>1, <2>5, ChainKept DEF IInv
    <3>2. /\ f.height = Len(named) /\ Len(stack') = Len(named) + Opens(f)
          /\ \A i \in 1..Len(named) : stack'[i] = named[i]
          /\ f.opens # "none" => stack'[Len(named) + 1].class = f.opens
      BY <2>3, <2>6, <2>7
    <3>3. Frames(Popped) /\ Frames(Append(Popped, f)) /\ Objects(named)
      BY <2>1, <2>6, <2>8
    <3>4. Chain(Append(Popped, f), stack')
      BY <3>1, <3>2, <3>3, ChainExtended
    <3>. QED BY <3>4, <2>8
  <2>10. TopChanges
    <3>. SUFFICES ASSUME NEW i \in 1..Len(stack), i < Len(stack)
                  PROVE  stack'[i] = stack[i]
      BY DEF TopChanges
    <3>. i \in 1..Len(named) /\ i \in 1..(Len(stack) - 1)
      BY <2>6
    <3>. QED BY <2>6, <2>7
  <2>11. IInv'
    BY <1>3, <2>7, <2>8, <2>9 DEF IInv, Frames, Objects, Chain, IsSeq, Opens
  <2>. QED BY <2>10, <2>11
<1>. QED BY <1>1, <1>2, <1>3

LEMMA HandleStep ==
  ASSUME IInv, outcome = "parsing", NEW w, NEW long, Handle(w, long)
  PROVE  IInv' /\ TopChanges
BY ReadingStep, VisitingStep DEF Handle

(* The object is popped, and what is added goes to the one below it.        *)
LEMMA LeaveStep ==
  ASSUME IInv, Leave
  PROVE  IInv' /\ TopChanges
<1>. DEFINE below == Pop
            parent == IF below = <<>> THEN V!Nothing ELSE below[Len(below)]
            a == IF Top.after = "none" THEN NotAdded
                 ELSE [to |-> parent.class, what |-> Top.after,
                       how |-> Reception(parent, Top.after)]
<1>1. /\ outcome = "parsing" /\ Len(frames) > 1
      /\ frames' = SubSeq(frames, 1, Len(frames) - 1)
      /\ stack' = AddedTo(below, a.how)
  BY Zenon DEF Leave
<1>2. outcome' # "done"
  <2>1. outcome' = CASE a.how \in Failures -> a.how
                     [] Top.casts /\ result # "Value" -> "thrown"
                     [] OTHER -> outcome
    BY Zenon DEF Leave
  <2>2. "done" \notin Failures
    BY DEF Failures
  <2>. HIDE DEF a
  <2>. QED BY <2>1, <2>2, <1>1
<1>3. /\ Len(below) \in Nat /\ Objects(below) /\ Frames(frames')
      /\ Chain(frames', below)
      /\ Len(below) <= Len(stack) /\ Len(stack) \in Nat
      /\ \A i \in 1..Len(below) : below[i] = stack[i]
  <2>. DEFINE k == Len(stack) - Opens(frames[Len(frames)])
  <2>1. /\ k \in 0..Len(stack) /\ Frames(frames') /\ Objects(below)
        /\ Chain(frames', below) /\ below = SubSeq(stack, 1, k)
    BY <1>1, ChainShortened DEF IInv, Pop, Top
  <2>2. IsSeq(stack) /\ Len(stack) \in Nat
    BY SeqFacts DEF IInv, Objects
  <2>. HIDE DEF k, below
  <2>3. Len(below) = k /\ \A i \in 1..k : below[i] = stack[i]
    BY <2>1, <2>2, FrontFacts
  <2>. QED BY <2>1, <2>2, <2>3
<1>4. TopOnly(below, stack')
  <2>1. below = <<>> =>
          a.how \notin {"first", "second", "value", "left", "right"}
    BY NoPlaceWithoutParent DEF NotAdded
  <2>. HIDE DEF below, a
  <2>. QED BY <1>1, <1>3, <2>1, AddingFacts
<1>. HIDE DEF below
<1>5. Chain(frames', stack') /\ Objects(stack')
  <2>1. \A i \in 1..Len(frames') : /\ frames'[i].height = frames'[i].height
                                   /\ frames'[i].opens = frames'[i].opens
    OBVIOUS
  <2>. QED BY <1>3, <1>4, <2>1, ChainKept DEF TopOnly
<1>6. TopChanges
  <2>. SUFFICES ASSUME NEW i \in 1..Len(stack), i < Len(stack')
                PROVE  stack'[i] = stack[i]
    BY DEF TopChanges
  <2>1. Len(stack') = Len(below)
        /\ \A j \in 1..(Len(below) - 1) : stack'[j] = below[j]
    BY <1>4 DEF TopOnly
  <2>. QED BY <2>1, <1>3
<1>. QED BY <1>2, <1>3, <1>5, <1>6
       DEF IInv, Frames, Objects, Chain, IsSeq, Opens

LEMMA Step == IInv /\ [Next]_vars => IInv' /\ TopChanges
<1>. SUFFICES ASSUME IInv, [Next]_vars PROVE IInv' /\ TopChanges
  OBVIOUS
<1>1. CASE Enter
  BY <1>1, HandleStep DEF Enter
<1>2. CASE EnterAfterError
  BY <1>2, HandleStep DEF EnterAfterError
<1>3. CASE FollowNull
  BY <1>3, FailStep DEF FollowNull
<1>4. CASE Leave
  BY <1>4, LeaveStep
<1>5. CASE Finish
  BY <1>5, Still DEF Finish
<1>6. CASE UNCHANGED vars
  BY <1>6, Still DEF vars, IInv
<1>7. CASE Ended
  BY <1>6, <1>7 DEF Ended
<1>. QED BY <1>1, <1>2, <1>3, <1>4, <1>5, <1>6, <1>7 DEF Next

(* The inductive invariant: whatever the visitors do, frames and objects    *)
(* keep in step.                                                            *)
THEOREM Invariance == Spec => []IInv
<1>. QED BY InitHolds, Step, PTL DEF Spec

(* The objects on the stack are those of the visits that are running, each  *)
(* where its visit pushed it.                                               *)
THEOREM StackFollowsCalls == Spec => []StackMatchesCalls
<1>1. IInv => StackMatchesCalls
  BY DEF IInv, Chain, StackMatchesCalls, Top
<1>. QED BY <1>1, Invariance, PTL

(* A frontend hands out its root when nothing is left under construction.   *)
THEOREM NothingIsLeftOpen ==
  Spec => [](outcome = "done" => stack = <<>> /\ Len(frames) = 1)
<1>1. IInv => (outcome = "done" => stack = <<>> /\ Len(frames) = 1)
  <2>. SUFFICES ASSUME IInv, outcome = "done"
                PROVE  stack = <<>> /\ Len(frames) = 1
    OBVIOUS
  <2>1. Len(frames) = 1
    BY DEF IInv
  <2>2. Len(stack) = 0
    BY <2>1 DEF IInv, Chain, Opens
  <2>3. stack \in Seq({stack[i] : i \in DOMAIN stack})
    BY DEF IInv, Objects, IsSeq
  <2>. QED BY <2>1, <2>2, <2>3
<1>. QED BY <1>1, Invariance, PTL

(* A step changes no object of the stack but the one on top.                *)
THEOREM LowerObjectsAreSafe == Spec => OnlyTheTopChanges
<1>1. IInv /\ [Next]_vars =>
        [\A i \in 1..Len(stack) :
           (i < Len(stack) /\ i < Len(stack')) => stack'[i] = stack[i]]_vars
  BY Step DEF TopChanges
<1>. QED BY <1>1, Invariance, PTL DEF Spec, OnlyTheTopChanges
-----------------------------------------------------------------------------
(* What is on top when the children of a context of r are visited may be    *)
(* there at each of the children w.                                         *)
Suits(l, r, w) ==
  \E S : w \in Seq(S) /\ \A s \in S : Inside(l, r) \subseteq Home(l, s)

(* Tokens may be visited anywhere.                                          *)
LEMMA TokensAnywhere ==
  ASSUME NEW s
  PROVE  /\ s \notin EldoNames => EldoHome(s) = Classes
         /\ s \notin SpectreNames => SpectreHome(s) = Classes
<1>1. s \notin EldoNames => EldoHome(s) = Classes
  <2>. SUFFICES ASSUME s \notin EldoNames PROVE EldoHome(s) = Classes
    OBVIOUS
  <2>1. s \notin DOMAIN EldoUpTo(MaxRepeat)!Rules
    BY DEF EldoNames, EldoRules
  <2>2. /\ s \notin {"netlist", "netlist_title", "library_name", "node"}
        /\ s \notin EldoStatements /\ s \notin EldoLibraryParts
        /\ s \notin EldoLibraryDefParts /\ s \notin EldoSubcktParts
        /\ s \notin EldoAlterParts /\ s \notin EldoAnalyses
        /\ s \notin EldoComponents /\ s \notin EldoControls
        /\ s \notin EldoModelParts /\ s \notin EldoParameters
        /\ s \notin EldoParameterParts /\ s \notin EldoNodes
        /\ s \notin EldoExpressions
    BY <2>1, EldoNamesAre DEF EldoStatements, EldoLibraryParts,
         EldoLibraryDefParts, EldoSubcktParts, EldoAlterParts, EldoAnalyses,
         EldoComponents, EldoControls, EldoModelParts, EldoParameters,
         EldoParameterParts, EldoNodes, EldoExpressions
  <2>. QED BY <2>2 DEF EldoHome
<1>2. s \notin SpectreNames => SpectreHome(s) = Classes
  <2>. SUFFICES ASSUME s \notin SpectreNames PROVE SpectreHome(s) = Classes
    OBVIOUS
  <2>1. s \notin DOMAIN SpectreUpTo(MaxRepeat)!Rules
    BY DEF SpectreNames, SpectreRules
  <2>2. /\ s \notin {"netlist", "parameter_assign", "array_expression",
                     "array_item"}
        /\ s \notin SpectreStatements /\ s \notin SpectreAnalysisParts
        /\ s \notin SpectreSubcktParts /\ s \notin SpectreLibraryParts
        /\ s \notin SpectreComponents /\ s \notin SpectreParameters
        /\ s \notin SpectreNodes /\ s \notin SpectreExpressions
        /\ s \notin SpectreUnvisited
    BY <2>1, SpectreNamesAre DEF SpectreStatements, SpectreAnalysisParts,
         SpectreSubcktParts, SpectreLibraryParts, SpectreComponents,
         SpectreParameters, SpectreNodes, SpectreExpressions,
         SpectreUnvisited
  <2>. QED BY <2>2 DEF SpectreHome
<1>. QED BY <1>1, <1>2

(* The classes that may be on top inside a rule are classes.                *)
LEMMA InsideIsOfClasses ==
  ASSUME NEW l, NEW r
  PROVE  Inside(l, r) \subseteq Classes /\ Home(l, r) \subseteq Classes
<1>1. EldoHome(r) \subseteq Classes /\ SpectreHome(r) \subseteq Classes
  BY DEF EldoHome, SpectreHome
<1>2. EldoInside(r) \subseteq Classes
  BY <1>1 DEF EldoInside, Classes, V!Values
<1>3. SpectreInside(r) \subseteq Classes
  BY <1>1 DEF SpectreInside, Classes, V!Values
<1>. QED BY <1>1, <1>2, <1>3 DEF Inside, Home

LEMMA OnceIsGrammar ==
  /\ DOMAIN EldoOnceRules = EldoNames
  /\ DOMAIN SpectreOnceRules = SpectreNames
BY EldoNamesAre, SpectreNamesAre
   DEF EldoOnceRules, EldoNames, EldoRules, SpectreOnceRules, SpectreNames,
       SpectreRules

LEMMA WordsSuit ==
  ASSUME NEW l, NEW r, IsRule(l, r), NEW w \in Words(l, r)
  PROVE  Suits(l, r, w)
<1>0. MaxRepeat \in Nat
  BY FrontendAssumption
<1>1. CASE l = "eldo"
  <2>1. r \in DOMAIN EldoUpTo(MaxRepeat)!Rules
        /\ w \in EldoUpTo(MaxRepeat)!Rules[r]
    BY <1>1 DEF IsRule, EldoNames, EldoRules, Words
  <2>2. EldoSuits(MaxRepeat, r)
    BY <2>1, <1>0, EldoWordsFit
  <2>. QED BY <1>1, <2>1, <2>2
         DEF EldoSuits, Suits, WordsOver, Inside, Home
<1>2. CASE l # "eldo"
  <2>1. r \in DOMAIN SpectreUpTo(MaxRepeat)!Rules
        /\ w \in SpectreUpTo(MaxRepeat)!Rules[r]
    BY <1>2 DEF IsRule, SpectreNames, SpectreRules, Words
  <2>2. SpectreSuits(MaxRepeat, r)
    BY <2>1, <1>0, SpectreWordsFit
  <2>. QED BY <1>2, <2>1, <2>2
         DEF SpectreSuits, Suits, WordsOver, Inside, Home
<1>. QED BY <1>1, <1>2

LEMMA OnceSuit ==
  ASSUME NEW l, NEW r, IsRule(l, r), NEW w \in Once(l, r)
  PROVE  Suits(l, r, w)
<1>1. CASE l = "eldo"
  <2>1. r \in DOMAIN EldoUpTo(1)!Rules /\ w \in EldoUpTo(1)!Rules[r]
    BY <1>1, OnceIsGrammar DEF IsRule, EldoOnceRules, Once
  <2>2. EldoSuits(1, r)
    BY <2>1, EldoWordsFit
  <2>. QED BY <1>1, <2>1, <2>2
         DEF EldoSuits, Suits, WordsOver, Inside, Home
<1>2. CASE l # "eldo"
  <2>1. r \in DOMAIN SpectreUpTo(1)!Rules /\ w \in SpectreUpTo(1)!Rules[r]
    BY <1>2, OnceIsGrammar DEF IsRule, SpectreOnceRules, Once
  <2>2. SpectreSuits(1, r)
    BY <2>1, SpectreWordsFit
  <2>. QED BY <1>2, <2>1, <2>2
         DEF SpectreSuits, Suits, WordsOver, Inside, Home
<1>. QED BY <1>1, <1>2

(* Nor does a syntax error bring a context anywhere else: a word that is    *)
(* cut short has the same symbols, and what is skipped are tokens.          *)
LEMMA CutsSuit ==
  ASSUME NEW l, NEW r, IsRule(l, r), NEW w \in Cuts(l, r), NEW k \in Skipped
  PROVE  Suits(l, r, w \o k)
<1>1. w \in CutShort(Once(l, r))
  BY OnceIsGrammar DEF Cuts, EldoCuts, SpectreCuts, IsRule, Once, EldoNames,
       SpectreNames
<1>2. PICK u \in Once(l, r) : w \in {SubSeq(u, 1, n) : n \in 0..(Len(u) - 1)}
  BY <1>1 DEF CutShort
<1>3. PICK n \in 0..(Len(u) - 1) : w = SubSeq(u, 1, n)
  BY <1>2
<1>4. PICK S : u \in Seq(S) /\ \A s \in S : Inside(l, r) \subseteq Home(l, s)
  BY OnceSuit DEF Suits
<1>5. w \in Seq(S)
  <2>1. \A i \in 1..n : u[i] \in S
    BY <1>4, LenProperties, ElementOfSeq
  <2>. QED BY <2>1, <1>3, <1>4, SubSeqProperties, 1 \in Int, n \in Int
<1>6. k \in Seq(STRING \ (EldoNames \cup SpectreNames))
  BY SkippedAssumption
<1>. DEFINE K == STRING \ (EldoNames \cup SpectreNames)
            T == S \cup K
<1>7. \A s \in K : Inside(l, r) \subseteq Home(l, s)
  BY TokensAnywhere, InsideIsOfClasses DEF Home
<1>8. \A s \in T : Inside(l, r) \subseteq Home(l, s)
  BY <1>4, <1>7
<1>9. w \o k \in Seq(T)
  <2>. HIDE DEF K
  <2>1. w \in Seq(T) /\ k \in Seq(T)
    BY <1>5, <1>6 DEF K
  <2>. QED BY <2>1, ConcatProperties
<1>. QED BY <1>8, <1>9 DEF Suits
-----------------------------------------------------------------------------
(* A visit that a plan asks for.                                            *)
IsItem(i) ==
  i = [rule |-> i.rule, how |-> i.how, text |-> i.text, must |-> i.must,
       lacking |-> i.lacking, depth |-> i.depth]

(* All the visits v can be made with an object of class c on top.           *)
Items(l, c, v) ==
  /\ IsSeq(v)
  /\ \A i \in DOMAIN v : IsItem(v[i]) /\ Fits(l, v[i], c)

(* A plan keeps within the bounds when the object on top is of class c.     *)
PlanFits(l, p, c) ==
  /\ p.needs # {} => c \in p.needs
  /\ p.fault = "" =>
       /\ p.opens.class \in Classes /\ p.opens.free \in PlacesLeft
       /\ p.returns \in Ways
       /\ p.adds # "none" => Takes(l, c, p.adds)
       /\ p.opens.class # "none" /\ p.attached => Takes(l, c, p.opens.class)
       /\ p.after # "none" => Takes(l, c, p.after)
       /\ Items(l, IF p.opens.class = "none" THEN c ELSE p.opens.class,
                p.visits)

LEMMA SuitsFacts ==
  ASSUME NEW l, NEW r, NEW w, Suits(l, r, w)
  PROVE  /\ Len(w) \in Nat /\ DOMAIN w = 1..Len(w)
         /\ \A i \in DOMAIN w : Inside(l, r) \subseteq Home(l, w[i])
<1>1. PICK S : w \in Seq(S) /\ \A s \in S : Inside(l, r) \subseteq Home(l, s)
  BY DEF Suits
<1>. QED BY <1>1, LenProperties, ElementOfSeq

LEMMA ItemsFacts ==
  ASSUME NEW l, NEW c, NEW n \in Nat, NEW v, v = [i \in 1..n |-> v[i]],
         \A i \in 1..n : IsItem(v[i]) /\ Fits(l, v[i], c)
  PROVE  Items(l, c, v)
<1>. DEFINE S == {v[i] : i \in DOMAIN v}
<1>1. v \in [1..n -> S]
  OBVIOUS
<1>. HIDE DEF S
<1>2. v \in Seq(S)
  BY <1>1, IsASeq
<1>3. IsSeq(v)
  BY <1>2, OwnRange
<1>. QED BY <1>3 DEF Items

LEMMA ItemsJoined ==
  ASSUME NEW l, NEW c, NEW u, Items(l, c, u), NEW v, Items(l, c, v)
  PROVE  Items(l, c, u \o v)
<1>. DEFINE S == {u[i] : i \in DOMAIN u} \cup {v[i] : i \in DOMAIN v}
<1>1. u \in Seq(S) /\ v \in Seq(S)
  BY DEF Items, IsSeq
<1>2. \A s \in S : IsItem(s) /\ Fits(l, s, c)
  BY DEF Items
<1>. HIDE DEF S
<1>3. u \o v \in Seq(S)
  BY <1>1, ConcatProperties
<1>4. \A i \in DOMAIN (u \o v) : (u \o v)[i] \in S
  BY <1>3, ElementOfSeq, LenProperties
<1>5. IsSeq(u \o v)
  BY <1>3, OwnRange
<1>. QED BY <1>2, <1>4, <1>5 DEF Items

LEMMA ItemsCut ==
  ASSUME NEW l, NEW c, NEW v, Items(l, c, v), NEW n \in 0..Len(v)
  PROVE  Items(l, c, SubSeq(v, 1, n))
<1>1. IsSeq(v) /\ Len(v) \in Nat /\ DOMAIN v = 1..Len(v)
  BY SeqFacts DEF Items
<1>2. /\ IsSeq(SubSeq(v, 1, n)) /\ Len(SubSeq(v, 1, n)) = n
      /\ \A i \in 1..n : SubSeq(v, 1, n)[i] = v[i]
  BY <1>1, FrontFacts
<1>3. DOMAIN SubSeq(v, 1, n) = 1..n
  BY <1>2, SeqFacts
<1>. QED BY <1>1, <1>2, <1>3 DEF Items

LEMMA ItemIs ==
  ASSUME NEW s, NEW how, NEW text
  PROVE  /\ IsItem(V!Item(s, how, text))
         /\ V!Item(s, how, text).rule = s /\ V!Item(s, how, text).how = how
BY DEF V!Item, IsItem

LEMMA AcceptFits ==
  ASSUME NEW l, NEW c, NEW s, c \in Home(l, s),
         NEW i, i = V!Item(s, "accept", FALSE)
  PROVE  IsItem(i) /\ Fits(l, i, c)
<1>1. IsItem(i) /\ i.rule = s /\ i.how = "accept"
  BY DEF V!Item, IsItem
<1>. QED BY <1>1 DEF Fits

LEMMA ReadingIs ==
  ASSUME NEW l, NEW c, NEW s, NEW K, NEW fault
  PROVE  /\ IsItem(V!Reading(s, K, fault))
         /\ Fits(l, V!Reading(s, K, fault), c)
<1>1. \A i, x : i = [rule |-> i.rule, how |-> i.how, text |-> i.text,
                    must |-> i.must, lacking |-> i.lacking,
                    depth |-> i.depth]
        => [i EXCEPT !.must = x] =
             [rule |-> i.rule, how |-> i.how, text |-> i.text, must |-> x,
              lacking |-> i.lacking, depth |-> i.depth]
  OBVIOUS
<1>2. \A i, y : i = [rule |-> i.rule, how |-> i.how, text |-> i.text,
                    must |-> i.must, lacking |-> i.lacking,
                    depth |-> i.depth]
        => [i EXCEPT !.lacking = y] =
             [rule |-> i.rule, how |-> i.how, text |-> i.text,
              must |-> i.must, lacking |-> y, depth |-> i.depth]
  OBVIOUS
<1>3. \A i, x, y : IsItem(i) => IsItem([[i EXCEPT !.must = x]
                                             EXCEPT !.lacking = y])
  <2>1. \A i, x : IsItem(i) => IsItem([i EXCEPT !.must = x])
    BY <1>1, Zenon DEF IsItem
  <2>2. \A i, y : IsItem(i) => IsItem([i EXCEPT !.lacking = y])
    BY <1>2, Zenon DEF IsItem
  <2>. QED BY <2>1, <2>2
<1>4. \A i, x, y : [i EXCEPT !.must = x, !.lacking = y]
                     = [[i EXCEPT !.must = x] EXCEPT !.lacking = y]
  OBVIOUS
<1>5. IsItem(V!Item(s, "read", TRUE))
  BY DEF V!Item, IsItem
<1>6. IsItem(V!Reading(s, K, fault))
  BY <1>3, <1>4, <1>5, Zenon DEF V!Reading
<1>7. V!Reading(s, K, fault).how = "read"
  BY DEF V!Reading, V!Item
<1>. QED BY <1>6, <1>7 DEF Fits

LEMMA CountFacts ==
  ASSUME NEW w, NEW n \in Nat, DOMAIN w = 1..n, NEW t
  PROVE  /\ V!Count(w, t) \in Nat
         /\ V!Count(w, t) # 0 => V!Has(w, t)
         /\ V!Has(w, t) <=> \E i \in DOMAIN w : w[i] = t
<1>0. V!Count(w, t) = Cardinality(V!All(w, t))
  BY Zenon DEF V!Count, V!Cardinality, V!IsFiniteSet, Cardinality, IsFiniteSet
<1>1. IsFiniteSet(V!All(w, t))
  BY FS_Interval, FS_Subset, 1 \in Int, n \in Int DEF V!All
<1>2. V!Count(w, t) \in Nat
  BY <1>0, <1>1, FS_CardinalityType
<1>3. V!Count(w, t) # 0 => V!Has(w, t)
  BY <1>0, FS_EmptySet DEF V!Has
<1>4. V!Has(w, t) <=> \E i \in DOMAIN w : w[i] = t
  BY DEF V!Has, V!All
<1>. QED BY <1>2, <1>3, <1>4

(* The visits that most visitors make: all the children of a context, all   *)
(* those of a name, the first one.                                          *)
LEMMA AllAreItems ==
  ASSUME NEW l, NEW r, NEW w, Suits(l, r, w), NEW c \in Inside(l, r), NEW K
  PROVE  Items(l, c, V!Visit(w, K).visits)
<1>. DEFINE v == V!Visit(w, K).visits
<1>0. v = [i \in DOMAIN w |-> V!Item(w[i], "accept", i \in K)]
  BY DEF V!Visit
<1>. HIDE DEF v
<1>1. /\ Len(w) \in Nat /\ DOMAIN w = 1..Len(w)
      /\ \A i \in DOMAIN w : Inside(l, r) \subseteq Home(l, w[i])
  BY SuitsFacts
<1>2. \A i \in 1..Len(w) : IsItem(v[i]) /\ Fits(l, v[i], c)
  <2>. SUFFICES ASSUME NEW i \in 1..Len(w)
                PROVE  IsItem(v[i]) /\ Fits(l, v[i], c)
    OBVIOUS
  <2>1. v[i] = V!Item(w[i], "accept", i \in K)
    BY <1>0, <1>1
  <2>. QED BY <2>1, <1>1, ItemIs DEF Fits
<1>3. v = [i \in 1..Len(w) |-> v[i]]
  BY <1>0, <1>1
<1>4. Items(l, c, v)
  BY <1>1, <1>2, <1>3, ItemsFacts
<1>. QED BY <1>4 DEF v

LEMMA EachCounts ==
  ASSUME NEW w, NEW n \in Nat, DOMAIN w = 1..n, NEW t, NEW how
  PROVE  Len(V!Each(w, t, how)) = V!Count(w, t)
<1>. DEFINE m == V!Count(w, t)
            e == V!Item(t, how, FALSE)
            v == V!Each(w, t, how)
<1>1. m \in Nat
  BY CountFacts
<1>2. v = [i \in 1..m |-> e]
  BY DEF V!Each
<1>. HIDE DEF m, e, v
<1>3. v \in [1..m -> {e}]
  BY <1>2
<1>4. v \in Seq({e}) /\ DOMAIN v = 1..m
  BY <1>1, <1>3, IsASeq
<1>5. Len(v) = m
  BY <1>1, <1>4, LenProperties
<1>. QED BY <1>5 DEF m, v

LEMMA EachAreItems ==
  ASSUME NEW l, NEW c, NEW w, NEW n \in Nat, DOMAIN w = 1..n, NEW t, NEW how,
         V!Has(w, t) => Fits(l, V!Item(t, how, FALSE), c)
  PROVE  Items(l, c, V!Each(w, t, how))
<1>. DEFINE v == V!Each(w, t, how)
<1>1. V!Count(w, t) \in Nat /\ (V!Count(w, t) # 0 => V!Has(w, t))
  BY CountFacts
<1>2. v = [i \in 1..V!Count(w, t) |-> V!Item(t, how, FALSE)]
  BY DEF V!Each
<1>. HIDE DEF v
<1>3. v = [i \in 1..V!Count(w, t) |-> v[i]]
  BY <1>2
<1>0. IsItem(V!Item(t, how, FALSE))
  BY ItemIs
<1>4. \A i \in 1..V!Count(w, t) : IsItem(v[i]) /\ Fits(l, v[i], c)
  <2>. SUFFICES ASSUME NEW i \in 1..V!Count(w, t)
                PROVE  IsItem(v[i]) /\ Fits(l, v[i], c)
    OBVIOUS
  <2>1. v[i] = V!Item(t, how, FALSE) /\ V!Count(w, t) # 0
    BY <1>1, <1>2
  <2>. QED BY <2>1, <1>0, <1>1
<1>5. Items(l, c, v)
  BY <1>1, <1>3, <1>4, ItemsFacts
<1>. QED BY <1>5 DEF v

LEMMA OneIsItems ==
  ASSUME NEW l, NEW c, NEW i, IsItem(i), Fits(l, i, c)
  PROVE  Items(l, c, <<i>>)
<1>1. <<i>> \in Seq({i})
  OBVIOUS
<1>2. IsSeq(<<i>>)
  BY <1>1, OwnRange
<1>3. DOMAIN <<i>> = {1} /\ <<i>>[1] = i
  OBVIOUS
<1>. QED BY <1>2, <1>3 DEF Items

LEMMA NullIsItems ==
  ASSUME NEW l, NEW c
  PROVE  Items(l, c, <<V!Null>>) /\ Items(l, c, <<>>)
<1>1. IsItem(V!Null) /\ V!Null.rule = "null"
  BY DEF V!Null, V!Item, IsItem
<1>2. Fits(l, V!Null, c)
  BY <1>1 DEF Fits
<1>3. IsSeq(<<>>) /\ DOMAIN <<>> = {}
  BY DEF IsSeq
<1>4. Items(l, c, <<>>)
  BY <1>3 DEF Items
<1>. QED BY <1>1, <1>2, <1>4, OneIsItems

LEMMA FirstIsItems ==
  ASSUME NEW l, NEW c, NEW w, NEW t, NEW how,
         V!Has(w, t) => Fits(l, V!Item(t, how, FALSE), c)
  PROVE  Items(l, c, V!First(w, t, how))
BY OneIsItems, NullIsItems, ItemIs DEF V!First

(* The plans of most visit functions.                                       *)
LEMMA PlacesAre ==
  ASSUME NEW c
  PROVE  V!Places(c) \in PlacesLeft
<1>1. /\ <<"first", "second">> \in PlacesLeft
      /\ <<"value">> \in PlacesLeft
      /\ <<"left", "right">> \in PlacesLeft /\ <<>> \in PlacesLeft
  BY DEF PlacesLeft
<1>. QED BY <1>1 DEF V!Places
-----------------------------------------------------------------------------
(* What opens none, but adds one of class a and makes the visits v.         *)
KeepsTo(p, C, a, v) ==
  /\ p.needs = C /\ p.adds = a
  /\ p.opens.class = "none" /\ p.opens.free \in PlacesLeft
  /\ p.returns \in Ways /\ p.after = "none"
  /\ p.visits = v

LEMMA KeepingIs ==
  ASSUME NEW w, NEW K, NEW C, NEW a
  PROVE  /\ KeepsTo(V!Visit(w, K), {}, "none", V!Visit(w, K).visits)
         /\ KeepsTo(V!Setting(C, w, K), C, "none", V!Visit(w, K).visits)
         /\ KeepsTo(V!Adding(a, w, K), {}, a, V!Visit(w, K).visits)
<1>1. <<>> \in PlacesLeft
  BY DEF PlacesLeft
<1>2. KeepsTo(V!Visit(w, K), {}, "none", V!Visit(w, K).visits)
  BY <1>1 DEF V!Visit, V!Nothing, V!Object, KeepsTo, Ways
<1>3. KeepsTo(V!Setting(C, w, K), C, "none", V!Visit(w, K).visits)
  BY <1>1 DEF V!Setting, V!Visit, V!Nothing, V!Object, KeepsTo, Ways
<1>4. KeepsTo(V!Adding(a, w, K), {}, a, V!Visit(w, K).visits)
  BY <1>1 DEF V!Adding, V!Visit, V!Nothing, V!Object, KeepsTo, Ways
<1>. QED BY <1>2, <1>3, <1>4

LEMMA PickingIs ==
  ASSUME NEW w, NEW K, NEW C, NEW a, NEW v
  PROVE  /\ KeepsTo([V!Visit(w, K) EXCEPT !.visits = v], {}, "none", v)
         /\ KeepsTo([V!Setting(C, w, K) EXCEPT !.visits = v], C, "none", v)
         /\ KeepsTo([V!Adding(a, w, K) EXCEPT !.visits = v], {}, a, v)
<1>1. <<>> \in PlacesLeft
  BY DEF PlacesLeft
<1>2. KeepsTo([V!Visit(w, K) EXCEPT !.visits = v], {}, "none", v)
  BY <1>1 DEF V!Visit, V!Nothing, V!Object, KeepsTo, Ways
<1>3. KeepsTo([V!Setting(C, w, K) EXCEPT !.visits = v], C, "none", v)
  BY <1>1 DEF V!Setting, V!Visit, V!Nothing, V!Object, KeepsTo, Ways
<1>4. KeepsTo([V!Adding(a, w, K) EXCEPT !.visits = v], {}, a, v)
  BY <1>1 DEF V!Adding, V!Visit, V!Nothing, V!Object, KeepsTo, Ways
<1>. QED BY <1>2, <1>3, <1>4

LEMMA KeptFits ==
  ASSUME NEW l, NEW c, NEW p, NEW C, NEW a, NEW v, KeepsTo(p, C, a, v),
         C = {} \/ c \in C, a = "none" \/ Takes(l, c, a), Items(l, c, v)
  PROVE  PlanFits(l, p, c)
<1>1. "none" \in Classes
  BY DEF Classes
<1>. QED BY <1>1 DEF PlanFits, KeepsTo

LEMMA VisitFits ==
  ASSUME NEW l, NEW r, NEW w, Suits(l, r, w), NEW c \in Inside(l, r), NEW K
  PROVE  PlanFits(l, V!Visit(w, K), c)
BY KeepingIs, KeptFits, AllAreItems

LEMMA SettingFits ==
  ASSUME NEW l, NEW r, NEW w, Suits(l, r, w), NEW c \in Inside(l, r), NEW K,
         NEW C, c \in C
  PROVE  PlanFits(l, V!Setting(C, w, K), c)
BY KeepingIs, KeptFits, AllAreItems

LEMMA AddingFits ==
  ASSUME NEW l, NEW r, NEW w, Suits(l, r, w), NEW c \in Inside(l, r), NEW K,
         NEW a, Takes(l, c, a)
  PROVE  PlanFits(l, V!Adding(a, w, K), c)
BY KeepingIs, KeptFits, AllAreItems

LEMMA VisitPicked ==
  ASSUME NEW l, NEW w, NEW K, NEW c, NEW v, Items(l, c, v)
  PROVE  PlanFits(l, [V!Visit(w, K) EXCEPT !.visits = v], c)
BY PickingIs, KeptFits

LEMMA SettingPicked ==
  ASSUME NEW l, NEW w, NEW K, NEW C, NEW c \in C, NEW v, Items(l, c, v)
  PROVE  PlanFits(l, [V!Setting(C, w, K) EXCEPT !.visits = v], c)
BY PickingIs, KeptFits

LEMMA AddingPicked ==
  ASSUME NEW l, NEW w, NEW K, NEW a, NEW c, Takes(l, c, a),
         NEW v, Items(l, c, v)
  PROVE  PlanFits(l, [V!Adding(a, w, K) EXCEPT !.visits = v], c)
BY PickingIs, KeptFits

(* What opens an object of class o and makes the visits v.                  *)
OpensFor(p, o, v) ==
  /\ p.needs = {} /\ p.fault = "" /\ p.adds = "none"
  /\ p.opens.class = o /\ p.opens.free \in PlacesLeft
  /\ p.returns \in Ways /\ p.after = "none"
  /\ p.visits = v

LEMMA OpeningIs ==
  ASSUME NEW o, NEW w, NEW K
  PROVE  OpensFor(V!Opening(o, w, K), o, V!Visit(w, K).visits)
BY PlacesAre DEF V!Opening, V!Visit, V!Object, OpensFor, Ways

LEMMA OpenedFits ==
  ASSUME NEW l, NEW p, NEW o \in Classes, o # "none", NEW v,
         OpensFor(p, o, v), Items(l, o, v), NEW c, Takes(l, c, o)
  PROVE  PlanFits(l, p, c)
BY DEF PlanFits, OpensFor

LEMMA OpeningFits ==
  ASSUME NEW l, NEW r, NEW w, Suits(l, r, w), NEW K,
         NEW o \in Inside(l, r), o # "none", NEW c, Takes(l, c, o)
  PROVE  PlanFits(l, V!Opening(o, w, K), c)
BY OpenedFits, OpeningIs, AllAreItems, InsideIsOfClasses

(* The same where the visitor picks the children that it visits.            *)
LEMMA OpeningPicked ==
  ASSUME NEW l, NEW w, NEW K, NEW o \in Classes, o # "none",
         NEW c, Takes(l, c, o), NEW v, Items(l, o, v)
  PROVE  PlanFits(l, [V!Opening(o, w, K) EXCEPT !.visits = v], c)
<1>. DEFINE p == [V!Opening(o, w, K) EXCEPT !.visits = v]
<1>1. OpensFor(p, o, v)
  BY PlacesAre DEF V!Opening, V!Visit, V!Object, OpensFor, Ways
<1>. HIDE DEF p
<1>2. PlanFits(l, p, c)
  BY <1>1, OpenedFits
<1>. QED BY <1>2 DEF p

LEMMA FailingFits ==
  ASSUME NEW l, NEW w, NEW c, NEW fault, fault # ""
  PROVE  PlanFits(l, V!Failing(fault, w), c)
BY DEF PlanFits, V!Failing, V!Visit

(* The Eldo frontend's own copies of these operators are the same.          *)
LEMMA EldoCopies ==
  /\ \A w, t : /\ Eldo!All(w, t) = V!All(w, t) /\ Eldo!Has(w, t) = V!Has(w, t)
               /\ Eldo!Count(w, t) = V!Count(w, t)
  /\ \A w, t, K : Eldo!At(w, t, K) = V!At(w, t, K)
  /\ \A w, t, h : /\ Eldo!Each(w, t, h) = V!Each(w, t, h)
                  /\ Eldo!First(w, t, h) = V!First(w, t, h)
  /\ \A s, K, f : Eldo!Reading(s, K, f) = V!Reading(s, K, f)
  /\ \A s : Eldo!Accept(s) = V!Item(s, "accept", FALSE)
  /\ Eldo!Null = V!Null
  /\ \A w, K : Eldo!Visit(w, K) = V!Visit(w, K)
  /\ \A c, w, K : /\ Eldo!Opening(c, w, K) = V!Opening(c, w, K)
                  /\ Eldo!Setting(c, w, K) = V!Setting(c, w, K)
                  /\ Eldo!Adding(c, w, K) = V!Adding(c, w, K)
  /\ \A f, w : Eldo!Failing(f, w) = V!Failing(f, w)
<1>1. \A w, t : /\ Eldo!All(w, t) = V!All(w, t)
                /\ Eldo!Has(w, t) = V!Has(w, t)
  BY DEF Eldo!All, V!All, Eldo!Has, V!Has
<1>2. \A w, t : Eldo!Count(w, t) = V!Count(w, t)
  BY <1>1, Zenon DEF Eldo!Count, V!Count, Eldo!Cardinality, V!Cardinality,
       Eldo!IsFiniteSet, V!IsFiniteSet
<1>3. \A w, t, K : Eldo!At(w, t, K) = V!At(w, t, K)
  BY <1>1, Zenon DEF Eldo!At, V!At, Eldo!All, V!All, Eldo!Cardinality,
       V!Cardinality, Eldo!IsFiniteSet, V!IsFiniteSet
<1>4. \A s, h, x : Eldo!Item(s, h, x) = V!Item(s, h, x)
  BY Zenon DEF Eldo!Item, V!Item
<1>5. \A s, K, f : Eldo!Reading(s, K, f) = V!Reading(s, K, f)
  BY Zenon DEF Eldo!Item, V!Item, Eldo!Reading, V!Reading
<1>6. Eldo!Null = V!Null /\ \A s : Eldo!Accept(s) = V!Item(s, "accept", FALSE)
  BY Zenon DEF Eldo!Item, V!Item, Eldo!Null, V!Null, Eldo!Accept
<1>7. \A w, t, h : /\ Eldo!Each(w, t, h) = V!Each(w, t, h)
                   /\ Eldo!First(w, t, h) = V!First(w, t, h)
  <2>1. \A w, t, h : Eldo!Each(w, t, h) = V!Each(w, t, h)
    BY <1>2, <1>4 DEF Eldo!Each, V!Each
  <2>2. \A w, t, h : Eldo!First(w, t, h) = V!First(w, t, h)
    BY <1>1, <1>4, <1>6 DEF Eldo!First, V!First
  <2>. QED BY <2>1, <2>2
<1>8. \A w, K : Eldo!Visit(w, K) = V!Visit(w, K)
  BY Zenon DEF Eldo!Visit, V!Visit, Eldo!Nothing, V!Nothing, Eldo!Object,
       V!Object, Eldo!Item, V!Item
<1>9. \A c, w, K : /\ Eldo!Opening(c, w, K) = V!Opening(c, w, K)
                   /\ Eldo!Setting(c, w, K) = V!Setting(c, w, K)
                   /\ Eldo!Adding(c, w, K) = V!Adding(c, w, K)
  <2>1. \A c : Eldo!Object(c, Eldo!Places(c)) = V!Object(c, V!Places(c))
    BY Zenon DEF Eldo!Object, V!Object, Eldo!Places, V!Places
  <2>. QED BY <1>8, <2>1
         DEF Eldo!Opening, V!Opening, Eldo!Setting, V!Setting, Eldo!Adding,
             V!Adding
<1>10. \A f, w : Eldo!Failing(f, w) = V!Failing(f, w)
  BY <1>8 DEF Eldo!Failing, V!Failing
<1>. QED BY <1>1, <1>2, <1>3, <1>5, <1>6, <1>7, <1>8, <1>9, <1>10

(* So are those of the Spectre frontend.                                      *)
LEMMA SpectreCopies ==
  /\ \A w, t : /\ Spectre!All(w, t) = V!All(w, t) /\ Spectre!Has(w, t) = V!Has(w, t)
               /\ Spectre!Count(w, t) = V!Count(w, t)
  /\ \A w, t, K : Spectre!At(w, t, K) = V!At(w, t, K)
  /\ \A w, t, h : /\ Spectre!Each(w, t, h) = V!Each(w, t, h)
                  /\ Spectre!First(w, t, h) = V!First(w, t, h)
  /\ \A s, K, f : Spectre!Reading(s, K, f) = V!Reading(s, K, f)
  /\ \A s : Spectre!Accept(s) = V!Item(s, "accept", FALSE)
  /\ Spectre!Null = V!Null
  /\ \A w, K : Spectre!Visit(w, K) = V!Visit(w, K)
  /\ \A c, w, K : /\ Spectre!Opening(c, w, K) = V!Opening(c, w, K)
                  /\ Spectre!Setting(c, w, K) = V!Setting(c, w, K)
                  /\ Spectre!Adding(c, w, K) = V!Adding(c, w, K)
  /\ \A f, w : Spectre!Failing(f, w) = V!Failing(f, w)
<1>1. \A w, t : /\ Spectre!All(w, t) = V!All(w, t)
                /\ Spectre!Has(w, t) = V!Has(w, t)
  BY DEF Spectre!All, V!All, Spectre!Has, V!Has
<1>2. \A w, t : Spectre!Count(w, t) = V!Count(w, t)
  BY <1>1, Zenon DEF Spectre!Count, V!Count, Spectre!Cardinality, V!Cardinality,
       Spectre!IsFiniteSet, V!IsFiniteSet
<1>3. \A w, t, K : Spectre!At(w, t, K) = V!At(w, t, K)
  BY <1>1, Zenon DEF Spectre!At, V!At, Spectre!All, V!All, Spectre!Cardinality,
       V!Cardinality, Spectre!IsFiniteSet, V!IsFiniteSet
<1>4. \A s, h, x : Spectre!Item(s, h, x) = V!Item(s, h, x)
  BY Zenon DEF Spectre!Item, V!Item
<1>5. \A s, K, f : Spectre!Reading(s, K, f) = V!Reading(s, K, f)
  BY Zenon DEF Spectre!Item, V!Item, Spectre!Reading, V!Reading
<1>6. Spectre!Null = V!Null /\ \A s : Spectre!Accept(s) = V!Item(s, "accept", FALSE)
  BY Zenon DEF Spectre!Item, V!Item, Spectre!Null, V!Null, Spectre!Accept
<1>7. \A w, t, h : /\ Spectre!Each(w, t, h) = V!Each(w, t, h)
                   /\ Spectre!First(w, t, h) = V!First(w, t, h)
  <2>1. \A w, t, h : Spectre!Each(w, t, h) = V!Each(w, t, h)
    BY <1>2, <1>4 DEF Spectre!Each, V!Each
  <2>2. \A w, t, h : Spectre!First(w, t, h) = V!First(w, t, h)
    BY <1>1, <1>4, <1>6 DEF Spectre!First, V!First
  <2>. QED BY <2>1, <2>2
<1>8. \A w, K : Spectre!Visit(w, K) = V!Visit(w, K)
  BY Zenon DEF Spectre!Visit, V!Visit, Spectre!Nothing, V!Nothing, Spectre!Object,
       V!Object, Spectre!Item, V!Item
<1>9. \A c, w, K : /\ Spectre!Opening(c, w, K) = V!Opening(c, w, K)
                   /\ Spectre!Setting(c, w, K) = V!Setting(c, w, K)
                   /\ Spectre!Adding(c, w, K) = V!Adding(c, w, K)
  <2>1. \A c : Spectre!Object(c, Spectre!Places(c)) = V!Object(c, V!Places(c))
    BY Zenon DEF Spectre!Object, V!Object, Spectre!Places, V!Places
  <2>. QED BY <1>8, <2>1
         DEF Spectre!Opening, V!Opening, Spectre!Setting, V!Setting, Spectre!Adding,
             V!Adding
<1>10. \A f, w : Spectre!Failing(f, w) = V!Failing(f, w)
  BY <1>8 DEF Spectre!Failing, V!Failing
<1>. QED BY <1>1, <1>2, <1>3, <1>5, <1>6, <1>7, <1>8, <1>9, <1>10
-----------------------------------------------------------------------------
(* The Eldo rules whose visitors open an object or pick the children they   *)
(* visit, by the section of the file that they are in.                      *)
EldoFileRules ==
  {"netlist", "standard_include", "verilog_include", "dspf_include",
   "library", "library_def", "subckt"}
EldoControlRules ==
  {"alter_definition", "save", "option", "nodeset", "defmac", "print",
   "plot", "probe", "temp", "chrent"}
EldoMeasureRules ==
  {"meas", "meas_find", "meas_at", "meas_when", "meas_derivative",
   "meas_param"}
EldoComponentRules == {"component", "component_table", "component_value_list"}
EldoValueRules ==
  {"expression_list", "expression_unary", "expression_function_call",
   "expression_atom", "node", "parameter", "node_mapping"}

EldoBeyondComponents ==
  EldoFileRules \cup {"analysis", "model"} \cup EldoControlRules
    \cup EldoMeasureRules
EldoBeyondValues == EldoBeyondComponents \cup EldoComponentRules

LEMMA EldoInsideIs ==
  ASSUME NEW r, r \notin EldoBeyondValues \cup EldoValueRules
  PROVE  EldoInside(r) = EldoHome(r)
BY DEF EldoInside, EldoBeyondValues, EldoBeyondComponents, EldoFileRules,
       EldoControlRules, EldoMeasureRules, EldoComponentRules, EldoValueRules

LEMMA EldoVisitFits ==
  ASSUME NEW r, r \notin EldoBeyondValues \cup EldoValueRules,
         NEW c \in EldoHome(r), NEW w, Suits("eldo", r, w), NEW K
  PROVE  PlanFits("eldo", V!Visit(w, K), c)
BY EldoInsideIs, VisitFits DEF Inside

(* Where the rules of a group are visited, and what can be added there.     *)
LEMMA EldoHomesAre ==
  ASSUME NEW r, NEW c \in EldoHome(r)
  PROVE  /\ r \in EldoStatements => c \in EldoScopes
         /\ r \in EldoAnalyses => c = "Analysis"
         /\ r \in EldoComponents => c = "Component"
         /\ r \in EldoControls => c = "Control"
         /\ r \in EldoModelParts => c = "Model"
         /\ r \in EldoAlterParts => c = "ControlScope"
         /\ r \in EldoLibraryParts => c = "Library"
         /\ r \in EldoSubcktParts => c = "Subckt"
         /\ r \in EldoParameters => c \in EldoParameterHomes
         /\ r \in EldoParameterParts => c = "Parameter"
         /\ r \in EldoNodes => c \in EldoNodeHomes
         /\ r \in EldoExpressions => c \in EldoExpressionHomes
         /\ r = "node" => c \in EldoNodeHomes \cup {"Node"}
         /\ r = "netlist" => c = "none"
         /\ r = "netlist_title" => c = "Circuit"
BY DEF EldoHome

LEMMA EldoTakes ==
  /\ \A c \in EldoScopes \cup {"none"} : \A a : Takes("eldo", c, a)
  /\ \A c \in EldoExpressionHomes, a \in V!Values : Takes("eldo", c, a)
  /\ \A c \in EldoParameterHomes : Takes("eldo", c, "Parameter")
  /\ \A c \in EldoNodeHomes \cup {"Node"} : Takes("eldo", c, "Node")
BY DEF Takes, Scopes, V!Values, EldoScopes, EldoExpressionHomes,
       EldoParameterHomes, EldoNodeHomes

LEMMA EldoExpressionsInside ==
  /\ EldoExpressionHomes \subseteq EldoHome("expression")
  /\ EldoInside("expression") = EldoHome("expression")
<1>1. EldoExpressionHomes \subseteq EldoHome("expression")
  BY DEF EldoHome, EldoExpressionHomes, EldoScopes, Classes, V!Values,
       EldoStatements, EldoLibraryParts, EldoLibraryDefParts,
       EldoSubcktParts, EldoAlterParts, EldoAnalyses, EldoComponents,
       EldoControls, EldoModelParts, EldoParameters, EldoParameterParts,
       EldoNodes, EldoExpressions
<1>. QED BY <1>1 DEF EldoInside

LEMMA EldoValuesFit ==
  ASSUME NEW r, r \notin EldoBeyondValues,
         NEW c \in EldoHome(r), NEW w, Suits("eldo", r, w)
  PROVE  PlanFits("eldo", Eldo!VisitValues(r, w), c)
<1>. DEFINE p == Eldo!VisitValues(r, w)
<1>0. /\ Len(w) \in Nat /\ DOMAIN w = 1..Len(w)
      /\ \A i \in DOMAIN w : Inside("eldo", r) \subseteq Home("eldo", w[i])
  BY SuitsFacts
<1>1. CASE r = "expression" /\ (Eldo!Count(w, "expression") = 2
                                /\ Eldo!Has(w, "expression_operator"))
  <2>. DEFINE v == [i \in DOMAIN w |->
                      IF w[i] = "expression_operator"
                      THEN Eldo!Reading(w[i], Eldo!Operators, "thrown")
                      ELSE Eldo!Accept(w[i])]
              K == Eldo!All(w, "expression_operator")
  <2>1. p = [Eldo!Opening("Expression", w, K) EXCEPT !.visits = v]
    BY <1>1 DEF Eldo!VisitValues
  <2>2. "Expression" \in Inside("eldo", r)
    BY <1>1, EldoExpressionsInside DEF Inside, EldoExpressionHomes
  <2>3. \A i \in 1..Len(w) : IsItem(v[i]) /\ Fits("eldo", v[i], "Expression")
    <3>. SUFFICES ASSUME NEW i \in 1..Len(w)
                  PROVE  IsItem(v[i]) /\ Fits("eldo", v[i], "Expression")
      OBVIOUS
    <3>1. CASE w[i] = "expression_operator"
      <4>1. v[i] = V!Reading(w[i], Eldo!Operators, "thrown")
        BY <3>1, <1>0, EldoCopies
      <4>. QED BY <4>1, ReadingIs
    <3>2. CASE w[i] # "expression_operator"
      <4>1. v[i] = V!Item(w[i], "accept", FALSE)
        BY <3>2, <1>0, EldoCopies
      <4>2. "Expression" \in Home("eldo", w[i])
        BY <1>0, <2>2
      <4>. HIDE DEF v
      <4>. QED BY <4>1, <4>2, AcceptFits
    <3>. QED BY <3>1, <3>2
  <2>4. v = [i \in 1..Len(w) |-> v[i]]
    BY <1>0
  <2>. HIDE DEF v, K
  <2>5. Items("eldo", "Expression", v)
    BY <1>0, <2>3, <2>4, ItemsFacts
  <2>6. Takes("eldo", c, "Expression")
    BY <1>1, EldoHomesAre, EldoTakes DEF EldoExpressions, V!Values
  <2>7. "Expression" \in Classes
    BY DEF Classes, V!Values
  <2>8. Eldo!Opening("Expression", w, K) = V!Opening("Expression", w, K)
    BY EldoCopies
  <2>. QED BY <2>1, <2>5, <2>6, <2>7, <2>8, OpeningPicked
<1>2. CASE r = "expression_unary"
  <2>1. p = V!Opening("ExpressionUnary", w, {})
    BY <1>2, EldoCopies DEF Eldo!VisitValues
  <2>2. Takes("eldo", c, "ExpressionUnary")
    BY <1>2, EldoHomesAre, EldoTakes DEF EldoExpressions, V!Values
  <2>3. "ExpressionUnary" \in Inside("eldo", r)
    BY <1>2 DEF Inside, EldoInside
  <2>. QED BY <2>1, <2>2, <2>3, OpeningFits
<1>3. CASE r = "expression_function_call"
  <2>1. p = V!Opening("FunctionCall", w, V!All(w, "ID"))
    BY <1>3, EldoCopies DEF Eldo!VisitValues
  <2>2. Takes("eldo", c, "FunctionCall")
    BY <1>3, EldoHomesAre, EldoTakes DEF EldoExpressions, V!Values
  <2>3. "FunctionCall" \in Inside("eldo", r)
    BY <1>3 DEF Inside, EldoInside
  <2>. QED BY <2>1, <2>2, <2>3, OpeningFits
<1>4. CASE r = "expression_list"
  <2>1. p = V!Opening("ValueList", w, {}) \/ p = V!Failing("thrown", w)
    BY <1>4, EldoCopies DEF Eldo!VisitValues
  <2>2. Takes("eldo", c, "ValueList")
    BY <1>4, EldoHomesAre, EldoTakes DEF EldoExpressions, V!Values
  <2>3. "ValueList" \in Inside("eldo", r)
    BY <1>4 DEF Inside, EldoInside
  <2>. QED BY <2>1, <2>2, <2>3, OpeningFits, FailingFits
<1>5. CASE r = "expression_atom"
  <2>1. \/ p = V!Failing("thrown", w)
        \/ \E o \in {"Number", "Identifier"} :
             \E K : p = V!Opening(o, w, K)
    BY <1>5, EldoCopies DEF Eldo!VisitValues
  <2>2. \A o \in {"Number", "Identifier"} :
          Takes("eldo", c, o) /\ o \in Inside("eldo", r) /\ o # "none"
    BY <1>5, EldoHomesAre, EldoTakes
       DEF EldoExpressions, V!Values, Inside, EldoInside
  <2>. QED BY <2>1, <2>2, OpeningFits, FailingFits
<1>6. CASE r = "node_mapping"
  <2>. DEFINE v == [i \in 1..Eldo!Count(w, "node") |->
                      Eldo!Reading("node", {"ID", "NUMBER"}, "thrown")]
  <2>1. p = [V!Adding("Parameter", w, V!All(w, "node")) EXCEPT !.visits = v]
    BY <1>6, EldoCopies DEF Eldo!VisitValues
  <2>2. Eldo!Count(w, "node") \in Nat
    BY <1>0, CountFacts, EldoCopies
  <2>3. \A i \in 1..Eldo!Count(w, "node") : IsItem(v[i]) /\ Fits("eldo", v[i], c)
    BY ReadingIs, EldoCopies
  <2>4. v = [i \in 1..Eldo!Count(w, "node") |-> v[i]]
    OBVIOUS
  <2>. HIDE DEF v
  <2>5. Items("eldo", c, v)
    BY <2>2, <2>3, <2>4, ItemsFacts
  <2>6. Takes("eldo", c, "Parameter")
    <3>1. c \in EldoNodeHomes
      BY <1>6, EldoHomesAre DEF EldoNodes
    <3>. QED BY <3>1, EldoTakes DEF EldoNodeHomes, EldoParameterHomes
  <2>. QED BY <2>1, <2>5, <2>6, AddingPicked
<1>7. CASE r = "node"
  <2>1. p = V!Opening("Node", w, DOMAIN w) \/ p = V!Failing("thrown", w)
    BY <1>7, EldoCopies DEF Eldo!VisitValues
  <2>2. Takes("eldo", c, "Node")
    BY <1>7, EldoHomesAre, EldoTakes
  <2>3. "Node" \in Inside("eldo", r)
    BY <1>7 DEF Inside, EldoInside
  <2>. QED BY <2>1, <2>2, <2>3, OpeningFits, FailingFits
<1>8. CASE r = "parameter"
  <2>1. p = V!Opening("Parameter", w, {})
    BY <1>8, EldoCopies DEF Eldo!VisitValues
  <2>2. Takes("eldo", c, "Parameter")
    BY <1>8, EldoHomesAre, EldoTakes DEF EldoParameters
  <2>3. "Parameter" \in Inside("eldo", r)
    BY <1>8 DEF Inside, EldoInside
  <2>. QED BY <2>1, <2>2, <2>3, OpeningFits
<1>9. CASE r = "parameter_lhs"
  <2>. DEFINE q == V!Setting({"Parameter"}, w, V!All(w, "ID"))
  <2>1. \E x : p = [q EXCEPT !.sets = x]
    BY <1>9, EldoCopies DEF Eldo!VisitValues
  <2>2. c = "Parameter"
    BY <1>9, EldoHomesAre DEF EldoParameterParts
  <2>3. c \in Inside("eldo", r)
    BY <1>9, EldoInsideIs
       DEF Inside, EldoBeyondValues, EldoBeyondComponents, EldoFileRules,
           EldoControlRules, EldoMeasureRules, EldoComponentRules,
           EldoValueRules
  <2>4. \A x : PlanFits("eldo", [q EXCEPT !.sets = x], c)
    <3>. SUFFICES ASSUME NEW x PROVE PlanFits("eldo", [q EXCEPT !.sets = x], c)
      OBVIOUS
    <3>1. KeepsTo([q EXCEPT !.sets = x], {"Parameter"}, "none",
                  V!Visit(w, V!All(w, "ID")).visits)
      <4>1. <<>> \in PlacesLeft
        BY DEF PlacesLeft
      <4>. QED BY <4>1
             DEF V!Setting, V!Visit, V!Nothing, V!Object, KeepsTo, Ways
    <3>. HIDE DEF q
    <3>. QED BY <3>1, <2>2, <2>3, KeptFits, AllAreItems
  <2>. QED BY <2>1, <2>4
<1>10. CASE /\ r \notin EldoValueRules \cup {"parameter_lhs"}
            /\ ~ (r = "expression" /\ (Eldo!Count(w, "expression") = 2
                                    /\ Eldo!Has(w, "expression_operator")))
  <2>1. p = V!Visit(w, {})
    BY <1>10, EldoCopies DEF Eldo!VisitValues, EldoValueRules
  <2>. QED BY <2>1, <1>10, EldoVisitFits
<1>. QED BY <1>1, <1>2, <1>3, <1>4, <1>5, <1>6, <1>7, <1>8, <1>9, <1>10
        DEF EldoValueRules
-----------------------------------------------------------------------------
(* The types of component only name the component on top of the stack.      *)
EldoTypeRules ==
  {"resistor", "capacitor", "diffusion_resistor", "jfet", "mosfet",
   "subckt_instance", "sw", "operational_amplifier", "coupled_inductor",
   "two_input_gate", "inductor", "transmission_line", "junction_diode",
   "bjt", "lossy_transmission_line", "ltl_w_model", "ltl_u_model",
   "ivsource", "icsource", "vcvs", "cccs", "vccs", "ccvs",
   "noise_function"}

LEMMA EldoTypesFit ==
  ASSUME NEW r, r \notin EldoBeyondValues,
         NEW c \in EldoHome(r), NEW w, Suits("eldo", r, w)
  PROVE  PlanFits("eldo", Eldo!VisitComponentTypes(r, w), c)
<1>1. CASE r \in EldoTypeRules
  <2>1. \E K : Eldo!VisitComponentTypes(r, w) = V!Setting({"Component"}, w, K)
    BY <1>1, EldoCopies DEF Eldo!VisitComponentTypes, EldoTypeRules
  <2>2. c = "Component"
    BY <1>1, EldoHomesAre DEF EldoComponents, EldoTypeRules
  <2>3. c \in Inside("eldo", r)
    BY <1>1, EldoInsideIs DEF Inside, EldoTypeRules, EldoValueRules
  <2>. QED BY <2>1, <2>2, <2>3, SettingFits
<1>2. CASE r \notin EldoTypeRules
  <2>1. Eldo!VisitComponentTypes(r, w) = Eldo!VisitValues(r, w)
    BY <1>2 DEF Eldo!VisitComponentTypes, EldoTypeRules
  <2>. QED BY <2>1, EldoValuesFit
<1>. QED BY <1>1, <1>2

(* What is visited in another way than through accept.                      *)
LEMMA ChildrenFits ==
  ASSUME NEW l, NEW s, NEW c \in Inside(l, s)
  PROVE  Fits(l, V!Item(s, "children", FALSE), c)
<1>. DEFINE i == V!Item(s, "children", FALSE)
<1>1. i.rule = s /\ i.how = "children"
  BY DEF V!Item
<1>. HIDE DEF i
<1>2. Fits(l, i, c)
  BY <1>1 DEF Fits
<1>. QED BY <1>2 DEF i

LEMMA ParameterFits ==
  ASSUME NEW l, NEW s, "Parameter" \in Inside(l, s),
         NEW c, Takes(l, c, "Parameter")
  PROVE  Fits(l, V!Item(s, "Parameter", FALSE), c)
<1>. DEFINE i == V!Item(s, "Parameter", FALSE)
<1>1. i.rule = s /\ i.how = "Parameter"
  BY DEF V!Item
<1>. HIDE DEF i
<1>2. Fits(l, i, c)
  BY <1>1 DEF Fits
<1>. QED BY <1>2 DEF i

(* A list that is added in a parameter when it is complete.                 *)
ListOf(w, v) ==
  [V!Opening("ValueList", w, {}) EXCEPT
     !.attached = FALSE, !.visits = v, !.after = "Parameter"]

LEMMA ListingFits ==
  ASSUME NEW l, NEW w, NEW c, Takes(l, c, "Parameter"),
         NEW v, Items(l, "ValueList", v)
  PROVE  PlanFits(l, ListOf(w, v), c)
<1>. DEFINE p == ListOf(w, v)
<1>1. /\ p.needs = {} /\ p.adds = "none" /\ p.attached = FALSE
      /\ p.opens.class = "ValueList" /\ p.opens.free \in PlacesLeft
      /\ p.returns = "children" /\ p.after = "Parameter" /\ p.visits = v
  BY PlacesAre DEF V!Opening, V!Visit, V!Object, ListOf
<1>2. "ValueList" \in Classes
  BY DEF Classes, V!Values
<1>. HIDE DEF p
<1>3. PlanFits(l, p, c)
  BY <1>1, <1>2 DEF PlanFits, Ways
<1>. QED BY <1>3 DEF p

LEMMA EldoComponentsFit ==
  ASSUME NEW r, r \notin EldoBeyondComponents,
         NEW c \in EldoHome(r), NEW w, Suits("eldo", r, w)
  PROVE  PlanFits("eldo", Eldo!VisitComponents(r, w), c)
<1>. DEFINE p == Eldo!VisitComponents(r, w)
            M == {"component_parameter_list", "component_positional_keywork",
                  "component_pin_list", "component_port_list",
                  "component_net_list", "component_coupling_list"}
<1>0. Len(w) \in Nat /\ DOMAIN w = 1..Len(w)
  BY SuitsFacts
<1>1. CASE r = "component"
  <2>1. p = V!Opening("Component", w, {})
    BY <1>1, EldoCopies DEF Eldo!VisitComponents
  <2>2. Takes("eldo", c, "Component")
    BY <1>1, EldoHomesAre, EldoTakes DEF EldoStatements
  <2>3. "Component" \in Inside("eldo", r)
    BY <1>1 DEF Inside, EldoInside
  <2>. QED BY <2>1, <2>2, <2>3, OpeningFits
<1>2. CASE r \in M \/ (r = "component_value" /\ Eldo!Has(w, "STRING"))
  <2>1. \/ \E K : p = V!Adding("Parameter", w, K)
        \/ p = V!Visit(w, {})
    BY <1>2, EldoCopies DEF Eldo!VisitComponents
  <2>2. c = "Component"
    BY <1>2, EldoHomesAre DEF EldoComponents
  <2>3. Takes("eldo", c, "Parameter")
    BY <2>2 DEF Takes
  <2>4. r \notin EldoBeyondValues \cup EldoValueRules
    BY <1>2 DEF EldoBeyondValues, EldoComponentRules, EldoValueRules
  <2>5. c \in Inside("eldo", r)
    BY <2>4, EldoInsideIs DEF Inside
  <2>. QED BY <2>1, <2>3, <2>5, AddingFits, VisitFits
<1>3. CASE r \in {"component_table", "component_value_list"}
  <2>1. c = "Component"
    BY <1>3, EldoHomesAre DEF EldoComponents
  <2>2. Takes("eldo", c, "Parameter")
    BY <2>1 DEF Takes
  <2>3. "ValueList" \in Inside("eldo", "expression")
    BY EldoExpressionsInside DEF Inside, EldoExpressionHomes
  <2>4. Fits("eldo", V!Item("expression", "children", FALSE), "ValueList")
    BY <2>3, ChildrenFits
  <2>5. Items("eldo", "ValueList", V!First(w, "expression", "children"))
    BY <2>4, FirstIsItems
  <2>6. Items("eldo", "ValueList", V!Each(w, "expression", "children"))
    BY <2>4, <1>0, EachAreItems
  <2>7. CASE r = "component_table"
    <3>1. p = ListOf(w, V!First(w, "expression", "children"))
      BY <2>7, EldoCopies DEF Eldo!VisitComponents, ListOf
    <3>. QED BY <3>1, <2>2, <2>5, ListingFits
  <2>8. CASE r = "component_value_list"
    <3>1. p = ListOf(w, V!Each(w, "expression", "children"))
      BY <2>8, EldoCopies DEF Eldo!VisitComponents, ListOf
    <3>. QED BY <3>1, <2>2, <2>6, ListingFits
  <2>. QED BY <1>3, <2>7, <2>8
<1>4. CASE /\ r \notin EldoComponentRules \cup M
           /\ ~(r = "component_value" /\ Eldo!Has(w, "STRING"))
  <2>1. p = Eldo!VisitComponentTypes(r, w)
    BY <1>4 DEF Eldo!VisitComponents, EldoComponentRules
  <2>. QED BY <2>1, <1>4, EldoTypesFit DEF EldoBeyondValues
<1>. QED BY <1>1, <1>2, <1>3, <1>4 DEF EldoComponentRules

(* The Eldo rules beyond those of measures, of controls and of models.      *)
EldoBeyondMeasures == EldoFileRules \cup {"analysis", "model"} \cup EldoControlRules
EldoBeyondControls == EldoFileRules \cup {"analysis", "model"}
EldoBeyondModels == EldoFileRules \cup {"analysis"}

LEMMA EldoMeasuresFit ==
  ASSUME NEW r, r \notin EldoBeyondMeasures,
         NEW c \in EldoHome(r), NEW w, Suits("eldo", r, w)
  PROVE  PlanFits("eldo", Eldo!VisitMeasures(r, w), c)
<1>. DEFINE p == Eldo!VisitMeasures(r, w)
            A == {"meas_info", "meas_label_name", "meas_vect",
                  "meas_catvect", "meas_trig", "meas_targ"}
            P == {"meas_find", "meas_at", "meas_when", "meas_derivative",
                  "meas_param"}
<1>0. "Parameter" \in Inside("eldo", "expression")
  BY EldoExpressionsInside DEF Inside, EldoExpressionHomes
<1>1. CASE r = "meas"
  <2>1. p = V!Opening("Control", w, {})
    BY <1>1, EldoCopies DEF Eldo!VisitMeasures
  <2>2. Takes("eldo", c, "Control")
    BY <1>1, EldoHomesAre, EldoTakes DEF EldoStatements
  <2>3. "Control" \in Inside("eldo", r)
    BY <1>1 DEF Inside, EldoInside
  <2>. QED BY <2>1, <2>2, <2>3, OpeningFits
<1>2. CASE r \in A
  <2>1. \E K : p = V!Adding("Parameter", w, K)
    BY <1>2, EldoCopies DEF Eldo!VisitMeasures
  <2>2. c = "Control"
    BY <1>2, EldoHomesAre DEF EldoControls
  <2>3. Takes("eldo", c, "Parameter")
    BY <2>2 DEF Takes
  <2>4. r \notin EldoBeyondValues \cup EldoValueRules
    BY <1>2 DEF EldoBeyondValues, EldoBeyondComponents, EldoBeyondMeasures,
         EldoMeasureRules, EldoComponentRules, EldoValueRules
  <2>5. c \in Inside("eldo", r)
    BY <2>4, EldoInsideIs DEF Inside
  <2>. QED BY <2>1, <2>3, <2>5, AddingFits
<1>3. CASE r \in P
  <2>1. p = [V!Visit(w, {}) EXCEPT
               !.visits = V!First(w, "expression", "Parameter")]
    BY <1>3, EldoCopies DEF Eldo!VisitMeasures
  <2>2. c = "Control"
    BY <1>3, EldoHomesAre DEF EldoControls
  <2>3. Takes("eldo", c, "Parameter")
    BY <2>2 DEF Takes
  <2>4. Items("eldo", c, V!First(w, "expression", "Parameter"))
    BY <1>0, <2>3, ParameterFits, FirstIsItems
  <2>. QED BY <2>1, <2>4, VisitPicked
<1>4. CASE r \notin {"meas"} \cup A \cup P
  <2>1. p = Eldo!VisitComponents(r, w)
    BY <1>4 DEF Eldo!VisitMeasures
  <2>2. r \notin EldoBeyondComponents
    BY <1>4 DEF EldoBeyondComponents, EldoBeyondMeasures, EldoMeasureRules
  <2>. QED BY <2>1, <2>2, EldoComponentsFit
<1>. QED BY <1>1, <1>2, <1>3, <1>4
-----------------------------------------------------------------------------
LEMMA EldoControlsFit ==
  ASSUME NEW r, r \notin EldoBeyondControls,
         NEW c \in EldoHome(r), NEW w, Suits("eldo", r, w)
  PROVE  PlanFits("eldo", Eldo!VisitControls(r, w), c)
<1>. DEFINE p == Eldo!VisitControls(r, w)
            A == {"save_file", "save_when"}
            S == {"alter_header", "chrent_point"}
<1>0. Len(w) \in Nat /\ DOMAIN w = 1..Len(w)
  BY SuitsFacts
<1>1. CASE r = "alter_definition"
  <2>1. p = V!Opening("ControlScope", w, {})
    BY <1>1, EldoCopies DEF Eldo!VisitControls
  <2>2. Takes("eldo", c, "ControlScope")
    BY <1>1, EldoHomesAre, EldoTakes DEF EldoStatements
  <2>3. "ControlScope" \in Inside("eldo", r)
    BY <1>1 DEF Inside, EldoInside
  <2>. QED BY <2>1, <2>2, <2>3, OpeningFits
<1>2. CASE r \in EldoControlRules \ {"alter_definition", "chrent"}
  <2>1. \E K : p = V!Opening("Control", w, K)
    BY <1>2, EldoCopies DEF Eldo!VisitControls, EldoControlRules
  <2>2. Takes("eldo", c, "Control")
    BY <1>2, EldoHomesAre, EldoTakes DEF EldoStatements, EldoControlRules
  <2>3. "Control" \in Inside("eldo", r)
    BY <1>2 DEF Inside, EldoInside, EldoControlRules
  <2>. QED BY <2>1, <2>2, <2>3, OpeningFits
<1>3. CASE r = "chrent"
  <2>. DEFINE u == [i \in 1..Eldo!Count(w, "node") |->
                      Eldo!Reading("node", {"ID", "NUMBER"}, "thrown")]
              v == V!First(w, "chrent_behaviour", "children")
              K == V!All(w, "node")
  <2>1. p = [V!Opening("Control", w, K) EXCEPT !.visits = u \o v]
    BY <1>3, EldoCopies DEF Eldo!VisitControls
  <2>2. Eldo!Count(w, "node") \in Nat
    BY <1>0, CountFacts, EldoCopies
  <2>3. \A i \in 1..Eldo!Count(w, "node") :
          IsItem(u[i]) /\ Fits("eldo", u[i], "Control")
    BY ReadingIs, EldoCopies
  <2>4. u = [i \in 1..Eldo!Count(w, "node") |-> u[i]]
    OBVIOUS
  <2>. HIDE DEF u
  <2>5. Items("eldo", "Control", u)
    BY <2>2, <2>3, <2>4, ItemsFacts
  <2>6. "Control" \in Inside("eldo", "chrent_behaviour")
    <3>1. "Control" \in EldoHome("chrent_behaviour")
      BY DEF EldoHome, EldoScopes, Classes, V!Values,
         EldoStatements, EldoLibraryParts, EldoLibraryDefParts,
         EldoSubcktParts, EldoAlterParts, EldoAnalyses, EldoComponents,
         EldoControls, EldoModelParts, EldoParameters, EldoParameterParts,
         EldoNodes, EldoExpressions
    <3>. QED BY <3>1 DEF Inside, EldoInside
  <2>7. Items("eldo", "Control", v)
    BY <2>6, ChildrenFits, FirstIsItems
  <2>. HIDE DEF v
  <2>8. Items("eldo", "Control", u \o v)
    BY <2>5, <2>7, ItemsJoined
  <2>9. Takes("eldo", c, "Control") /\ "Control" \in Classes
    BY <1>3, EldoHomesAre, EldoTakes DEF EldoStatements, Classes
  <2>. HIDE DEF p, K
  <2>10. PlanFits("eldo", p, c)
    BY <2>1, <2>8, <2>9, OpeningPicked
  <2>. QED BY <2>10 DEF p
<1>4. CASE r \in S
  <2>1. \E C, K : /\ p = V!Setting(C, w, K)
                  /\ r = "alter_header" => "ControlScope" \in C
                  /\ r = "chrent_point" => "Control" \in C
    BY <1>4, EldoCopies DEF Eldo!VisitControls
  <2>2. /\ r = "alter_header" => c = "ControlScope"
        /\ r = "chrent_point" => c = "Control"
    BY EldoHomesAre DEF EldoAlterParts, EldoControls
  <2>3. r \notin EldoBeyondValues \cup EldoValueRules
    BY <1>4 DEF EldoBeyondValues, EldoBeyondComponents, EldoFileRules,
         EldoControlRules, EldoMeasureRules, EldoComponentRules,
         EldoValueRules
  <2>4. c \in Inside("eldo", r)
    BY <2>3, EldoInsideIs DEF Inside
  <2>. QED BY <1>4, <2>1, <2>2, <2>4, SettingFits
<1>5. CASE \/ r = "save_file" \/ r = "chrent_pair"
           \/ r = "save_when" /\ Eldo!Has(w, "ID")
  <2>1. c = "Control"
    BY <1>5, EldoHomesAre DEF EldoControls
  <2>2. Takes("eldo", c, "Parameter")
    BY <2>1 DEF Takes
  <2>3. r \notin EldoBeyondValues \cup EldoValueRules
    BY <1>5 DEF EldoBeyondValues, EldoBeyondComponents, EldoFileRules,
         EldoControlRules, EldoMeasureRules, EldoComponentRules,
         EldoValueRules
  <2>4. c \in Inside("eldo", r)
    BY <2>3, EldoInsideIs DEF Inside
  <2>5. CASE r # "chrent_pair"
    <3>1. \E K : p = V!Adding("Parameter", w, K)
      BY <1>5, <2>5, EldoCopies DEF Eldo!VisitControls
    <3>. QED BY <3>1, <2>2, <2>4, AddingFits
  <2>6. CASE r = "chrent_pair"
    <3>. DEFINE K == V!At(w, "NUMBER", {0, 1})
                v == V!Visit(w, K).visits
    <3>1. p = [V!Adding("Parameter", w, K) EXCEPT
                 !.needs = {"Control", "ControlScope"}]
      BY <2>6, EldoCopies DEF Eldo!VisitControls
    <3>2. KeepsTo(p, {"Control", "ControlScope"}, "Parameter", v)
      <4>1. <<>> \in PlacesLeft
        BY DEF PlacesLeft
      <4>. HIDE DEF K, p
      <4>. QED BY <3>1, <4>1
             DEF V!Adding, V!Visit, V!Nothing, V!Object, KeepsTo, Ways
    <3>3. Items("eldo", c, v)
      BY <2>4, AllAreItems
    <3>. HIDE DEF p, v
    <3>4. PlanFits("eldo", p, c)
      BY <3>2, <3>3, <2>1, <2>2, KeptFits
    <3>. QED BY <3>4 DEF p
  <2>. QED BY <2>5, <2>6
<1>6. CASE /\ r \notin EldoControlRules
                 \cup {"alter_header", "chrent_point", "save_file", "chrent_pair"}
           /\ ~(r = "save_when" /\ Eldo!Has(w, "ID"))
  <2>1. p = Eldo!VisitMeasures(r, w)
    BY <1>6 DEF Eldo!VisitControls, EldoControlRules
  <2>2. r \notin EldoBeyondMeasures
    BY <1>6 DEF EldoBeyondControls, EldoBeyondMeasures
  <2>. QED BY <2>1, <2>2, EldoMeasuresFit
<1>. QED BY <1>1, <1>2, <1>3, <1>4, <1>5, <1>6

LEMMA EldoModelsFit ==
  ASSUME NEW r, r \notin EldoBeyondModels,
         NEW c \in EldoHome(r), NEW w, Suits("eldo", r, w)
  PROVE  PlanFits("eldo", Eldo!VisitModels(r, w), c)
<1>. DEFINE p == Eldo!VisitModels(r, w)
            M == {"model_lib", "model_name", "model_master", "model_lib_type"}
<1>1. CASE r = "model"
  <2>1. p = V!Opening("Model", w, {})
    BY <1>1, EldoCopies DEF Eldo!VisitModels
  <2>2. Takes("eldo", c, "Model")
    BY <1>1, EldoHomesAre, EldoTakes DEF EldoStatements
  <2>3. "Model" \in Inside("eldo", r)
    BY <1>1 DEF Inside, EldoInside
  <2>. QED BY <2>1, <2>2, <2>3, OpeningFits
<1>2. CASE r \in M
  <2>1. \E K : p = V!Setting({"Model"}, w, K)
    BY <1>2, EldoCopies DEF Eldo!VisitModels
  <2>2. c = "Model"
    BY <1>2, EldoHomesAre DEF EldoModelParts
  <2>3. r \notin EldoBeyondValues \cup EldoValueRules
    BY <1>2 DEF EldoBeyondValues, EldoBeyondComponents, EldoFileRules,
         EldoControlRules, EldoMeasureRules, EldoComponentRules,
         EldoValueRules
  <2>4. c \in Inside("eldo", r)
    BY <2>3, EldoInsideIs DEF Inside
  <2>. QED BY <2>1, <2>2, <2>4, SettingFits
<1>3. CASE r \notin {"model"} \cup M
  <2>1. p = Eldo!VisitControls(r, w)
    BY <1>3 DEF Eldo!VisitModels
  <2>2. r \notin EldoBeyondControls
    BY <1>3 DEF EldoBeyondModels, EldoBeyondControls
  <2>. QED BY <2>1, <2>2, EldoControlsFit
<1>. QED BY <1>1, <1>2, <1>3
-----------------------------------------------------------------------------
LEMMA EldoAnalysesFit ==
  ASSUME NEW r, r \notin EldoFileRules,
         NEW c \in EldoHome(r), NEW w, Suits("eldo", r, w)
  PROVE  PlanFits("eldo", Eldo!VisitAnalyses(r, w), c)
<1>. DEFINE p == Eldo!VisitAnalyses(r, w)
            times == V!Each(w, "expression", "Parameter")
            A == {"ac_parameter_driven", "ac_adaptive", "ac_list_driven",
                  "dsp", "four", "wcase", "dc_component_analysis",
                  "dc_temperature_analysis", "dc_parameter_analysis", "lstb",
                  "pz", "mc", "noise", "ramp", "solve_parameter",
                  "solve_object", "solve_component", "ac_data_driven", "age",
                  "checksoa", "dc_data_driven_analysis", "dchiz",
                  "dcmismatch", "dex", "dspmod", "noisetran",
                  "op_time_based", "op_dc_based", "optfour", "optimize",
                  "optnoise", "sens", "sensac", "sensparam", "snf", "tf",
                  "tran_data_driven", "extract"}
            G == {"dc_source_analysis", "tran_point_driven"}
            O == {"op_selective", "tran_parameterized"}
<1>0. Len(w) \in Nat /\ DOMAIN w = 1..Len(w)
      /\ \A i \in DOMAIN w : Inside("eldo", r) \subseteq Home("eldo", w[i])
  BY SuitsFacts
<1>1. r \in A \cup G \cup O =>
        /\ c = "Analysis" /\ c \in Inside("eldo", r)
        /\ Takes("eldo", c, "Parameter")
  <2>. SUFFICES ASSUME r \in A \cup G \cup O
                PROVE  /\ c = "Analysis" /\ c \in Inside("eldo", r)
                       /\ Takes("eldo", c, "Parameter")
    OBVIOUS
  <2>1. c = "Analysis"
    BY EldoHomesAre DEF EldoAnalyses
  <2>2. r \notin EldoBeyondValues \cup EldoValueRules
    BY DEF EldoBeyondValues, EldoBeyondComponents, EldoFileRules,
         EldoControlRules, EldoMeasureRules, EldoComponentRules,
         EldoValueRules
  <2>3. c \in Inside("eldo", r)
    BY <2>2, EldoInsideIs DEF Inside
  <2>. QED BY <2>1, <2>3 DEF Takes
<1>2. CASE r = "analysis"
  <2>1. p = V!Opening("Analysis", w, {})
    BY <1>2, EldoCopies DEF Eldo!VisitAnalyses
  <2>2. Takes("eldo", c, "Analysis")
    BY <1>2, EldoHomesAre, EldoTakes DEF EldoStatements
  <2>3. "Analysis" \in Inside("eldo", r)
    BY <1>2 DEF Inside, EldoInside
  <2>. QED BY <2>1, <2>2, <2>3, OpeningFits
<1>3. CASE r \in A
  <2>1. \E K : p = V!Setting({"Analysis"}, w, K)
    BY <1>3, EldoCopies DEF Eldo!VisitAnalyses
  <2>. QED BY <2>1, <1>1, <1>3, SettingFits
<1>4. CASE r \in G
  <2>1. \/ \E K : p = V!Setting({"Analysis"}, w, K)
        \/ \E f \in {"crashed", "thrown"} : p = V!Failing(f, w)
    BY <1>4, EldoCopies
       DEF Eldo!VisitAnalyses, Eldo!VisitDcSource, Eldo!VisitTranPointDriven
  <2>2. CASE \E K : p = V!Setting({"Analysis"}, w, K)
    BY <2>2, <1>1, <1>4, SettingFits
  <2>3. CASE \E f \in {"crashed", "thrown"} : p = V!Failing(f, w)
    <3>1. \A f \in {"crashed", "thrown"} : f # ""
      OBVIOUS
    <3>. HIDE DEF p
    <3>2. PlanFits("eldo", p, c)
      BY <2>3, <3>1, FailingFits
    <3>. QED BY <3>2 DEF p
  <2>. QED BY <2>1, <2>2, <2>3
<1>5. r \in O =>
        /\ Items("eldo", c, times) /\ Len(times) = V!Count(w, "expression")
        /\ Len(times) \in Nat
  <2>. SUFFICES ASSUME r \in O
                PROVE  /\ Items("eldo", c, times)
                       /\ Len(times) = V!Count(w, "expression")
                       /\ Len(times) \in Nat
    OBVIOUS
  <2>1. "Parameter" \in Inside("eldo", "expression")
    BY EldoExpressionsInside DEF Inside, EldoExpressionHomes
  <2>2. Fits("eldo", V!Item("expression", "Parameter", FALSE), c)
    BY <1>1, <2>1, ParameterFits
  <2>5. Len(w) \in Nat /\ DOMAIN w = 1..Len(w)
    BY <1>0
  <2>6. V!Has(w, "expression") =>
          Fits("eldo", V!Item("expression", "Parameter", FALSE), c)
    BY <2>2
  <2>7. Items("eldo", c, times)
    BY <2>6, <2>5, EachAreItems
  <2>8. Len(times) = V!Count(w, "expression")
    BY <2>5, EachCounts
  <2>3. Items("eldo", c, times) /\ Len(times) = V!Count(w, "expression")
    BY <2>7, <2>8
  <2>4. V!Count(w, "expression") \in Nat
    BY <1>0, CountFacts
  <2>. QED BY <2>3, <2>4
<1>6. CASE r = "op_selective"
  <2>. DEFINE C == {"Analysis"}
              ids == Eldo!Count(w, "ID")
              u == [i \in DOMAIN w |-> Eldo!Accept(w[i])]
              K == V!At(w, "ID", 1..Len(times))
              v == SubSeq(times, 1, ids - 1) \o <<V!Null>>
              x == times \o u
  <2>1. \/ /\ ids \in 1..Len(times)
           /\ p = [V!Setting(C, w, K) EXCEPT !.visits = v]
        \/ p = [V!Setting(C, w, K) EXCEPT !.visits = x]
    BY <1>6, EldoCopies DEF Eldo!VisitAnalyses, Eldo!VisitOpSelective
  <2>2. \A i \in 1..Len(w) : IsItem(u[i]) /\ Fits("eldo", u[i], c)
    <3>. SUFFICES ASSUME NEW i \in 1..Len(w)
                  PROVE  IsItem(u[i]) /\ Fits("eldo", u[i], c)
      OBVIOUS
    <3>1. u[i] = V!Item(w[i], "accept", FALSE)
      BY <1>0, EldoCopies
    <3>2. c \in Home("eldo", w[i])
      BY <1>0, <1>1, <1>6
    <3>. HIDE DEF u
    <3>. QED BY <3>1, <3>2, AcceptFits
  <2>3. u = [i \in 1..Len(w) |-> u[i]]
    BY <1>0
  <2>. HIDE DEF u, times, ids
  <2>4. Items("eldo", c, u)
    BY <1>0, <2>2, <2>3, ItemsFacts
  <2>5. Items("eldo", c, x)
    BY <1>5, <1>6, <2>4, ItemsJoined
  <2>6. ids \in 1..Len(times) =>
          Items("eldo", c, v)
    <3>. SUFFICES ASSUME ids \in 1..Len(times)
                  PROVE  Items("eldo", c, v)
      OBVIOUS
    <3>1. ids - 1 \in 0..Len(times)
      BY <1>5, <1>6
    <3>2. Items("eldo", c, SubSeq(times, 1, ids - 1))
      BY <1>5, <1>6, <3>1, ItemsCut
    <3>. QED BY <3>2, NullIsItems, ItemsJoined
  <2>7. c \in C
    BY <1>1, <1>6
  <2>. HIDE DEF p, C, K, v, x
  <2>8. PlanFits("eldo", p, c)
    BY <2>1, <2>5, <2>6, <2>7, SettingPicked
  <2>. QED BY <2>8 DEF p
<1>7. CASE r = "tran_parameterized"
  <2>. DEFINE C == {"Analysis"}
              pairs == Eldo!Count(w, "expression") \div 2
              u == V!Each(w, "parameter_list", "children")
              K == {}
              x == SubSeq(times, 1, 2 * pairs) \o u
  <2>1. \/ p = V!Failing("thrown", w)
        \/ p = [V!Setting(C, w, K) EXCEPT !.visits = x]
    BY <1>7, EldoCopies DEF Eldo!VisitAnalyses, Eldo!VisitTranParameterized
  <2>2. 2 * pairs \in 0..Len(times)
    BY <1>5, <1>7, EldoCopies
  <2>3. "Analysis" \in Inside("eldo", "parameter_list")
    <3>1. "Analysis" \in EldoHome("parameter_list")
      BY DEF EldoHome, EldoScopes, EldoParameterHomes, Classes, V!Values,
         EldoStatements, EldoLibraryParts, EldoLibraryDefParts,
         EldoSubcktParts, EldoAlterParts, EldoAnalyses, EldoComponents,
         EldoControls, EldoModelParts, EldoParameters, EldoParameterParts,
         EldoNodes, EldoExpressions
    <3>. QED BY <3>1 DEF Inside, EldoInside
  <2>4. Fits("eldo", V!Item("parameter_list", "children", FALSE), c)
    BY <2>3, <1>1, <1>7, ChildrenFits
  <2>5. Items("eldo", c, u)
    BY <1>0, <2>4, EachAreItems
  <2>. HIDE DEF u, times, pairs
  <2>6. Items("eldo", c, SubSeq(times, 1, 2 * pairs))
    BY <1>5, <1>7, <2>2, ItemsCut
  <2>7. Items("eldo", c, x)
    BY <2>5, <2>6, ItemsJoined
  <2>8. c \in C /\ "thrown" # ""
    BY <1>1, <1>7
  <2>. HIDE DEF p, C, K, x
  <2>9. PlanFits("eldo", p, c)
    <3>1. CASE p = V!Failing("thrown", w)
      BY <3>1, <2>8, FailingFits
    <3>2. CASE p = [V!Setting(C, w, K) EXCEPT !.visits = x]
      BY <3>2, <2>7, <2>8, SettingPicked
    <3>. QED BY <2>1, <3>1, <3>2
  <2>. QED BY <2>9 DEF p
<1>8. CASE r \notin {"analysis"} \cup A \cup G \cup O
  <2>1. p = Eldo!VisitModels(r, w)
    BY <1>8 DEF Eldo!VisitAnalyses
  <2>2. r \notin EldoBeyondModels
    BY <1>8 DEF EldoBeyondModels
  <2>. QED BY <2>1, <2>2, EldoModelsFit
<1>. QED BY <1>2, <1>3, <1>4, <1>6, <1>7, <1>8

(* Every visit function of the Eldo frontend can be called where it is.     *)
LEMMA EldoPlansFit ==
  ASSUME NEW r, NEW c \in EldoHome(r), NEW w, Suits("eldo", r, w)
  PROVE  PlanFits("eldo", Eldo!Plan(r, w, c), c)
<1>. DEFINE p == Eldo!Plan(r, w, c)
            I == {"standard_include", "verilog_include", "dspf_include"}
            S == {"netlist_title", "library_path", "subckt_header"}
<1>1. CASE r = "netlist"
  <2>1. p = V!Opening("Circuit", w, {})
    BY <1>1, EldoCopies DEF Eldo!Plan
  <2>2. Takes("eldo", c, "Circuit")
    BY <1>1, EldoHomesAre, EldoTakes
  <2>3. "Circuit" \in Inside("eldo", r)
    BY <1>1 DEF Inside, EldoInside
  <2>. QED BY <2>1, <2>2, <2>3, OpeningFits
<1>2. CASE r \in EldoFileRules \ {"netlist"}
  <2>1. \E o \in Inside("eldo", r) : \E K :
          o # "none" /\ p = V!Opening(o, w, K)
    BY <1>2, EldoCopies DEF Eldo!Plan, Inside, EldoInside, EldoFileRules
  <2>2. \A a : Takes("eldo", c, a)
    BY <1>2, EldoHomesAre, EldoTakes DEF EldoStatements, EldoFileRules
  <2>. QED BY <2>1, <2>2, OpeningFits
<1>3. r \in S \cup {"library_name"} => c \in Inside("eldo", r)
  <2>1. r \in S \cup {"library_name"} =>
          r \notin EldoBeyondValues \cup EldoValueRules
    BY DEF EldoBeyondValues, EldoBeyondComponents, EldoFileRules,
         EldoControlRules, EldoMeasureRules, EldoComponentRules,
         EldoValueRules
  <2>. QED BY <2>1, EldoInsideIs DEF Inside
<1>4. CASE r \in S
  <2>1. \E C, K : /\ p = V!Setting(C, w, K)
                  /\ r = "netlist_title" => "Circuit" \in C
                  /\ r = "library_path" => "Library" \in C
                  /\ r = "subckt_header" => "Subckt" \in C
    BY <1>4, EldoCopies DEF Eldo!Plan
  <2>2. /\ r = "netlist_title" => c = "Circuit"
        /\ r = "library_path" => c = "Library"
        /\ r = "subckt_header" => c = "Subckt"
    BY EldoHomesAre DEF EldoLibraryParts, EldoSubcktParts
  <2>. QED BY <1>3, <1>4, <2>1, <2>2, SettingFits
<1>5. CASE r = "library_name"
  <2>1. \E K : p = V!Visit(w, K)
    BY <1>5, EldoCopies DEF Eldo!Plan
  <2>. QED BY <1>3, <1>5, <2>1, VisitFits
<1>6. CASE r \notin EldoFileRules \cup S \cup {"library_name"}
  <2>1. p = Eldo!VisitAnalyses(r, w)
    BY <1>6 DEF Eldo!Plan, EldoFileRules
  <2>. QED BY <2>1, <1>6, EldoAnalysesFit
<1>. QED BY <1>1, <1>2, <1>4, <1>5, <1>6 DEF EldoFileRules
-----------------------------------------------------------------------------
(* Plans that return something of their own.                                *)
OpenedWith(o, w, K, v, x) ==
  [V!Opening(o, w, K) EXCEPT !.visits = v, !.returns = x]

LEMMA OpenedWithFits ==
  ASSUME NEW l, NEW w, NEW K, NEW o \in Classes, o # "none",
         NEW c, Takes(l, c, o), NEW v, Items(l, o, v), NEW x \in Ways
  PROVE  PlanFits(l, OpenedWith(o, w, K, v, x), c)
<1>. DEFINE p == OpenedWith(o, w, K, v, x)
<1>1. OpensFor(p, o, v)
  BY PlacesAre DEF V!Opening, V!Visit, V!Object, OpensFor, Ways, OpenedWith
<1>. HIDE DEF p
<1>2. PlanFits(l, p, c)
  BY <1>1, OpenedFits
<1>. QED BY <1>2 DEF p

(* An atom is added as a value, or is nothing.                              *)
LeafOf(a, w, x) ==
  [V!Adding(a, w, DOMAIN w) EXCEPT !.visits = <<>>, !.returns = x]
NoLeaf(w) == [V!Visit(w, {}) EXCEPT !.visits = <<>>, !.returns = "null"]

LEMMA LeafFits ==
  ASSUME NEW l, NEW w, NEW a, NEW c, NEW x \in Ways
  PROVE  /\ Takes(l, c, a) => PlanFits(l, LeafOf(a, w, x), c)
         /\ PlanFits(l, NoLeaf(w), c)
<1>. DEFINE p == LeafOf(a, w, x)
            q == NoLeaf(w)
<1>0. <<>> \in PlacesLeft /\ Items(l, c, <<>>)
  BY NullIsItems DEF PlacesLeft
<1>1. KeepsTo(p, {}, a, <<>>)
  BY <1>0 DEF V!Adding, V!Visit, V!Nothing, V!Object, KeepsTo, Ways, LeafOf
<1>2. KeepsTo(q, {}, "none", <<>>)
  BY <1>0 DEF V!Visit, V!Nothing, V!Object, KeepsTo, Ways, NoLeaf
<1>. HIDE DEF p, q
<1>3. Takes(l, c, a) => PlanFits(l, p, c)
  BY <1>0, <1>1, KeptFits
<1>4. PlanFits(l, q, c)
  BY <1>0, <1>2, KeptFits
<1>. QED BY <1>3, <1>4 DEF p, q

(* The visits of some children only, and what the last of them returned.    *)
LastOf(w, v) == [V!Visit(w, {}) EXCEPT !.visits = v, !.returns = "last"]

LEMMA LastFits ==
  ASSUME NEW l, NEW w, NEW c, NEW v, Items(l, c, v)
  PROVE  PlanFits(l, LastOf(w, v), c)
<1>. DEFINE p == LastOf(w, v)
<1>1. KeepsTo(p, {}, "none", v)
  <2>1. <<>> \in PlacesLeft
    BY DEF PlacesLeft
  <2>. QED BY <2>1
         DEF V!Visit, V!Nothing, V!Object, KeepsTo, Ways, LastOf
<1>. HIDE DEF p
<1>2. PlanFits(l, p, c)
  BY <1>1, KeptFits
<1>. QED BY <1>2 DEF p
-----------------------------------------------------------------------------
(* The Spectre rules whose visitors open an object or pick the children     *)
(* they visit.                                                              *)
SpectreAnalysisRules ==
  {"ac", "acmatch", "dc", "dcmatch", "envlp", "sp", "stb", "tdr", "tran",
   "xf", "pac", "pdisto", "pnoise", "psp", "pss", "pxf", "pz", "qpac",
   "qpnoise", "qpsp", "qpss", "qpxf", "noise", "checklimit", "sweep",
   "montecarlo", "reliability", "sens"}
SpectreFileRules ==
  {"netlist", "netlist_title", "standard_include", "cpp_include",
   "ahdl_include", "library", "subckt"}
SpectreComponentRules ==
  {"option", "info", "lang", "save", "model", "component",
   "component_value", "component_value_list"}
SpectreNodeRules ==
  {"parameter_assign", "parameter_list_item", "node_list_item"}
SpectreValueRules ==
  {"expression_unary", "expression_function_call", "expression_atom",
   "array_item", "array_expression"}

SpectreBeyondNodes ==
  SpectreFileRules \cup SpectreAnalysisRules \cup SpectreComponentRules
SpectreBeyondValues == SpectreBeyondNodes \cup SpectreNodeRules

LEMMA SpectreInsideIs ==
  ASSUME NEW r, r \notin SpectreBeyondValues \cup SpectreValueRules
  PROVE  SpectreInside(r) = SpectreHome(r)
BY DEF SpectreInside, SpectreBeyondValues, SpectreBeyondNodes,
       SpectreFileRules, SpectreAnalysisRules, SpectreComponentRules,
       SpectreNodeRules, SpectreValueRules

LEMMA SpectreVisitFits ==
  ASSUME NEW r, r \notin SpectreBeyondValues \cup SpectreValueRules,
         NEW c \in SpectreHome(r), NEW w, Suits("spectre", r, w), NEW K
  PROVE  PlanFits("spectre", V!Visit(w, K), c)
<1>1. c \in Inside("spectre", r)
  BY SpectreInsideIs DEF Inside
<1>. QED BY <1>1, VisitFits

LEMMA SpectreHomesAre ==
  ASSUME NEW r, NEW c \in SpectreHome(r)
  PROVE  /\ r \in SpectreStatements => c \in SpectreScopes
         /\ r \in SpectreComponents => c = "Component"
         /\ r \in SpectreParameters => c \in SpectreParameterHomes
         /\ r \in SpectreNodes => c \in SpectreNodeHomes
         /\ r \in SpectreExpressions => c \in SpectreExpressionHomes
         /\ r \in SpectreSubcktParts => c = "Circuit"
         /\ r = "parameter_assign" =>
              c \in SpectreScopes \cup {"Component", "Include", "Model"}
         /\ r = "array_expression" => c = "Parameter"
         /\ r = "array_item" => c = "ValueList"
         /\ r = "netlist" => c = "none"
         /\ r \notin SpectreUnvisited
BY DEF SpectreHome

LEMMA SpectreTakes ==
  /\ \A c \in SpectreScopes \cup {"none"} : \A a : Takes("spectre", c, a)
  /\ \A c \in SpectreExpressionHomes, a \in V!Values : Takes("spectre", c, a)
  /\ \A c \in SpectreParameterHomes \cup {"Component", "Include", "Model"} :
       Takes("spectre", c, "Parameter")
  /\ \A c \in SpectreNodeHomes : Takes("spectre", c, "Node")
BY DEF Takes, Scopes, V!Values, SpectreScopes, SpectreExpressionHomes,
       SpectreParameterHomes, SpectreNodeHomes

(* Where the children that a visitor picks may be visited.                  *)
LEMMA SpectreHomesOfPicked ==
  /\ SpectreExpressionHomes \subseteq SpectreHome("expression")
  /\ SpectreExpressionHomes \subseteq SpectreHome("expression_scope")
  /\ "Parameter" \in SpectreHome("array_expression")
  /\ "Parameter" \in SpectreHome("none")
  /\ "Control" \in SpectreHome("parameter_list")
  /\ "Model" \in SpectreHome("parameter_assign")
BY DEF SpectreHome, SpectreExpressionHomes, SpectreParameterHomes,
       SpectreNodeHomes, SpectreScopes, Classes, V!Values,
       SpectreStatements, SpectreAnalysisParts, SpectreSubcktParts,
       SpectreLibraryParts, SpectreComponents, SpectreParameters,
       SpectreNodes, SpectreExpressions, SpectreUnvisited

(* A child of that name is visited through accept.                          *)
LEMMA AcceptedFits ==
  ASSUME NEW l, NEW s, NEW c \in Home(l, s)
  PROVE  Fits(l, V!Item(s, "accept", FALSE), c)
<1>. DEFINE i == V!Item(s, "accept", FALSE)
<1>1. i.rule = s /\ i.how = "accept"
  BY DEF V!Item
<1>. HIDE DEF i
<1>2. Fits(l, i, c)
  BY <1>1 DEF Fits
<1>. QED BY <1>2 DEF i

LEMMA ExpressionsAreItems ==
  ASSUME NEW w, NEW n \in Nat, DOMAIN w = 1..n, NEW c \in SpectreExpressionHomes
  PROVE  /\ Items("spectre", c, V!Each(w, "expression", "accept"))
         /\ Items("spectre", c, V!First(w, "expression", "accept"))
<1>1. c \in Home("spectre", "expression")
  BY SpectreHomesOfPicked DEF Home
<1>2. V!Has(w, "expression") =>
        Fits("spectre", V!Item("expression", "accept", FALSE), c)
  BY <1>1, AcceptedFits
<1>3. Items("spectre", c, V!Each(w, "expression", "accept"))
  BY <1>2, EachAreItems
<1>4. Items("spectre", c, V!First(w, "expression", "accept"))
  BY <1>2, FirstIsItems
<1>. QED BY <1>3, <1>4
-----------------------------------------------------------------------------
LEMMA SpectreExpressionsFit ==
  ASSUME NEW r, r \notin SpectreBeyondValues,
         NEW c \in SpectreHome(r), NEW w, Suits("spectre", r, w)
  PROVE  PlanFits("spectre", Spectre!VisitExpressions(r, w), c)
<1>. DEFINE p == Spectre!VisitExpressions(r, w)
            each == V!Each(w, "expression", "accept")
            first == V!First(w, "expression", "accept")
<1>0. Len(w) \in Nat /\ DOMAIN w = 1..Len(w)
  BY SuitsFacts
<1>1. r \in SpectreExpressions =>
        /\ c \in SpectreExpressionHomes
        /\ \A a \in V!Values : Takes("spectre", c, a)
  BY SpectreHomesAre, SpectreTakes
<1>2. \A o \in SpectreExpressionHomes :
        Items("spectre", o, each) /\ Items("spectre", o, first)
  BY <1>0, ExpressionsAreItems
<1>3. /\ {"other", "last"} \subseteq Ways
      /\ V!Values \subseteq Classes /\ "none" \notin V!Values
      /\ {"Expression", "ExpressionUnary", "FunctionCall", "ValueList"}
           \subseteq V!Values \cap SpectreExpressionHomes
  BY DEF Ways, Classes, V!Values, SpectreExpressionHomes
<1>4. CASE r = "expression" /\ Spectre!Count(w, "expression") = 2
  <2>. DEFINE u == IF V!Has(w, "expression_operator")
                   THEN <<V!Reading("expression_operator", Spectre!Operators,
                                    "thrown")>>
                   ELSE <<V!Null>>
              K == V!All(w, "expression_operator")
              v == u \o each
  <2>1. p = OpenedWith("Expression", w, K, v, "other")
    BY <1>4, SpectreCopies
       DEF Spectre!VisitExpressions, Spectre!VisitBinary, OpenedWith
  <2>2. Items("spectre", "Expression", u)
    BY ReadingIs, OneIsItems, NullIsItems
  <2>. HIDE DEF u, each, K
  <2>3. Items("spectre", "Expression", v)
    BY <1>2, <1>3, <2>2, ItemsJoined
  <2>4. Takes("spectre", c, "Expression")
    BY <1>1, <1>3, <1>4 DEF SpectreExpressions
  <2>. HIDE DEF p, v
  <2>5. PlanFits("spectre", p, c)
    BY <1>3, <2>1, <2>3, <2>4, OpenedWithFits
  <2>. QED BY <2>5 DEF p
<1>5. CASE r = "expression_unary"
  <2>1. \/ \E f \in {"crashed", "thrown"} : p = V!Failing(f, w)
        \/ p = OpenedWith("ExpressionUnary", w, {}, first, "other")
    BY <1>5, SpectreCopies DEF Spectre!VisitExpressions, OpenedWith
  <2>2. Takes("spectre", c, "ExpressionUnary")
    BY <1>1, <1>3, <1>5 DEF SpectreExpressions
  <2>. HIDE DEF p, first
  <2>3. CASE \E f \in {"crashed", "thrown"} : p = V!Failing(f, w)
    <3>1. \A f \in {"crashed", "thrown"} : f # ""
      OBVIOUS
    <3>2. PlanFits("spectre", p, c)
      BY <2>3, <3>1, FailingFits
    <3>. QED BY <3>2 DEF p
  <2>4. CASE p = OpenedWith("ExpressionUnary", w, {}, first, "other")
    <3>1. Items("spectre", "ExpressionUnary", first)
      BY <1>2, <1>3
    <3>2. PlanFits("spectre", p, c)
      BY <2>2, <2>4, <1>3, <3>1, OpenedWithFits
    <3>. QED BY <3>2 DEF p
  <2>. QED BY <2>1, <2>3, <2>4
<1>6. CASE r = "expression_function_call"
  <2>. DEFINE K == V!All(w, "ID")
  <2>1. \/ p = V!Failing("crashed", w)
        \/ p = OpenedWith("FunctionCall", w, K, each, "other")
    BY <1>6, SpectreCopies DEF Spectre!VisitExpressions, OpenedWith
  <2>2. Takes("spectre", c, "FunctionCall")
    BY <1>1, <1>3, <1>6 DEF SpectreExpressions
  <2>. HIDE DEF p, each, K
  <2>3. CASE p = V!Failing("crashed", w)
    <3>1. "crashed" # ""
      OBVIOUS
    <3>2. PlanFits("spectre", p, c)
      BY <2>3, <3>1, FailingFits
    <3>. QED BY <3>2 DEF p
  <2>4. CASE p = OpenedWith("FunctionCall", w, K, each, "other")
    <3>1. Items("spectre", "FunctionCall", each)
      BY <1>2, <1>3
    <3>2. PlanFits("spectre", p, c)
      BY <2>2, <2>4, <1>3, <3>1, OpenedWithFits
    <3>. QED BY <3>2 DEF p
  <2>. QED BY <2>1, <2>3, <2>4
<1>7. CASE r = "expression_scope"
  <2>. DEFINE v == V!Visit(w, {}).visits
  <2>1. \/ p = LastOf(w, each)
        \/ p = [V!Opening("ValueList", w, {}) EXCEPT !.returns = "other"]
    BY <1>7, SpectreCopies DEF Spectre!VisitExpressions, LastOf
  <2>2. c \in SpectreExpressionHomes /\ Takes("spectre", c, "ValueList")
    BY <1>1, <1>3, <1>7 DEF SpectreExpressions
  <2>3. CASE p = LastOf(w, each)
    <3>. HIDE DEF p, each
    <3>1. PlanFits("spectre", p, c)
      BY <1>2, <2>2, <2>3, LastFits
    <3>. QED BY <3>1 DEF p
  <2>4. CASE p = [V!Opening("ValueList", w, {}) EXCEPT !.returns = "other"]
    <3>1. "ValueList" \in Inside("spectre", r)
      BY <1>3, <1>7, SpectreHomesOfPicked DEF Inside, SpectreInside
    <3>2. Items("spectre", "ValueList", v)
      BY <3>1, AllAreItems
    <3>. HIDE DEF p, v
    <3>3. OpensFor(p, "ValueList", v)
      BY <2>4, PlacesAre DEF V!Opening, V!Visit, V!Object, OpensFor, Ways, v
    <3>4. PlanFits("spectre", p, c)
      BY <1>3, <2>2, <3>2, <3>3, OpenedFits
    <3>. QED BY <3>4 DEF p
  <2>. QED BY <2>1, <2>3, <2>4
<1>8. CASE r \in {"expression_atom", "array_item"}
  <2>1. \/ \E a \in V!Values : \E x \in Ways : p = LeafOf(a, w, x)
        \/ p = NoLeaf(w)
    <3>1. /\ {"Number", "Identifier", "String"} \subseteq V!Values
          /\ {"Value", "other"} \subseteq Ways
      BY DEF V!Values, Ways
    <3>2. \/ p = LeafOf("Number", w, "Value")
          \/ p = LeafOf("Identifier", w, "other")
          \/ p = LeafOf("String", w, "other")
          \/ p = NoLeaf(w)
      BY <1>8, SpectreCopies
         DEF Spectre!VisitExpressions, Spectre!VisitAtom, LeafOf, NoLeaf
    <3>. HIDE DEF p
    <3>. QED BY <3>1, <3>2
  <2>2. \A a \in V!Values : Takes("spectre", c, a)
    <3>1. CASE r = "expression_atom"
      BY <1>1, <3>1 DEF SpectreExpressions
    <3>2. CASE r = "array_item"
      BY <3>2, SpectreHomesAre, SpectreTakes DEF SpectreExpressionHomes
    <3>. QED BY <1>8, <3>1, <3>2
  <2>. HIDE DEF p
  <2>3. PlanFits("spectre", p, c)
    BY <2>1, <2>2, <1>3, LeafFits
  <2>. QED BY <2>3 DEF p
<1>9. CASE r = "array_expression"
  <2>1. p = V!Opening("ValueList", w, {})
    BY <1>9, SpectreCopies DEF Spectre!VisitExpressions
  <2>2. c \in SpectreExpressionHomes
    BY <1>9, SpectreHomesAre DEF SpectreExpressionHomes
  <2>3. Takes("spectre", c, "ValueList")
    BY <2>2, <1>3, SpectreTakes
  <2>4. "ValueList" \in Inside("spectre", r)
    BY <1>9 DEF Inside, SpectreInside
  <2>. QED BY <2>1, <2>3, <2>4, OpeningFits
<1>10. CASE /\ ~(r = "expression" /\ Spectre!Count(w, "expression") = 2)
            /\ r \notin SpectreValueRules \cup {"expression_scope"}
  <2>1. p = V!Visit(w, {})
    BY <1>10, SpectreCopies DEF Spectre!VisitExpressions, SpectreValueRules
  <2>. QED BY <2>1, <1>10, SpectreVisitFits
<1>. QED BY <1>4, <1>5, <1>6, <1>7, <1>8, <1>9, <1>10 DEF SpectreValueRules

(* A parameter has its name and waits for its value at most.                *)
ParameterOf(w, K, free, v) ==
  [V!Opening("Parameter", w, K) EXCEPT !.opens.free = free, !.visits = v]

LEMMA ParameterOfFits ==
  ASSUME NEW l, NEW w, NEW K, NEW free \in PlacesLeft,
         NEW c, Takes(l, c, "Parameter"), NEW v, Items(l, "Parameter", v)
  PROVE  PlanFits(l, ParameterOf(w, K, free, v), c)
<1>. DEFINE p == ParameterOf(w, K, free, v)
<1>1. OpensFor(p, "Parameter", v)
  BY DEF V!Opening, V!Visit, V!Object, OpensFor, Ways, ParameterOf
<1>2. "Parameter" \in Classes
  BY DEF Classes
<1>. HIDE DEF p
<1>3. PlanFits(l, p, c)
  BY <1>1, <1>2, OpenedFits
<1>. QED BY <1>3 DEF p

LEMMA SpectreNodesFit ==
  ASSUME NEW r, r \notin SpectreBeyondNodes,
         NEW c \in SpectreHome(r), NEW w, Suits("spectre", r, w)
  PROVE  PlanFits("spectre", Spectre!VisitNodes(r, w), c)
<1>. DEFINE p == Spectre!VisitNodes(r, w)
<1>0. Len(w) \in Nat /\ DOMAIN w = 1..Len(w)
  BY SuitsFacts
<1>1. CASE r \in {"parameter_assign", "parameter_list_item"}
  <2>1. \/ p = V!Failing("crashed", w)
        \/ \E K : \E free \in {<<>>, <<"right">>} :
           \E t \in {"array_expression", "expression", "none"} :
             p = ParameterOf(w, K, free, V!Each(w, t, "accept"))
    <3>. DEFINE value == CASE V!Has(w, "array_expression") -> "array_expression"
                 [] ~V!Has(w, "array_expression") /\ V!Has(w, "expression") ->
                      "expression"
                 [] OTHER -> "none"
                free == IF value = "none" /\ V!Has(w, "filepath")
                        THEN <<>> ELSE <<"right">>
                K == V!All(w, "parameter_id") \cup V!All(w, "filepath")
    <3>1. \/ p = V!Failing("crashed", w)
          \/ p = ParameterOf(w, K, free, V!Each(w, value, "accept"))
      BY <1>1, SpectreCopies
         DEF Spectre!VisitNodes, Spectre!VisitParameter, ParameterOf
    <3>2. /\ value \in {"array_expression", "expression", "none"}
          /\ free \in {<<>>, <<"right">>}
      OBVIOUS
    <3>. HIDE DEF value, free, K, p
    <3>. QED BY <3>1, <3>2
  <2>2. Takes("spectre", c, "Parameter")
    BY <1>1, SpectreHomesAre, SpectreTakes DEF SpectreParameters
  <2>3. \A t \in {"array_expression", "expression", "none"} :
          Items("spectre", "Parameter", V!Each(w, t, "accept"))
    <3>. SUFFICES ASSUME NEW t \in {"array_expression", "expression", "none"}
                  PROVE Items("spectre", "Parameter", V!Each(w, t, "accept"))
      OBVIOUS
    <3>1. "Parameter" \in Home("spectre", t)
      BY SpectreHomesOfPicked DEF Home, SpectreExpressionHomes
    <3>2. V!Has(w, t) =>
            Fits("spectre", V!Item(t, "accept", FALSE), "Parameter")
      BY <3>1, AcceptedFits
    <3>. QED BY <1>0, <3>2, EachAreItems
  <2>4. {<<>>, <<"right">>} \subseteq PlacesLeft /\ "crashed" # ""
    BY DEF PlacesLeft
  <2>. HIDE DEF p
  <2>5. CASE p = V!Failing("crashed", w)
    <3>1. PlanFits("spectre", p, c)
      BY <2>4, <2>5, FailingFits
    <3>. QED BY <3>1 DEF p
  <2>6. CASE \E K : \E free \in {<<>>, <<"right">>} :
             \E t \in {"array_expression", "expression", "none"} :
               p = ParameterOf(w, K, free, V!Each(w, t, "accept"))
    <3>5. PICK K : \E free \in {<<>>, <<"right">>} :
             \E t \in {"array_expression", "expression", "none"} :
               p = ParameterOf(w, K, free, V!Each(w, t, "accept"))
      BY <2>6
    <3>6. PICK free \in {<<>>, <<"right">>} :
             \E t \in {"array_expression", "expression", "none"} :
               p = ParameterOf(w, K, free, V!Each(w, t, "accept"))
      BY <3>5
    <3>2. PICK t \in {"array_expression", "expression", "none"} :
             p = ParameterOf(w, K, free, V!Each(w, t, "accept"))
      BY <3>6
    <3>. DEFINE v == V!Each(w, t, "accept")
    <3>3. Items("spectre", "Parameter", v) /\ free \in PlacesLeft
      BY <2>3, <2>4
    <3>4. p = ParameterOf(w, K, free, v)
      BY <3>2
    <3>. HIDE DEF v
    <3>1. PlanFits("spectre", p, c)
      BY <2>2, <3>3, <3>4, ParameterOfFits
    <3>. QED BY <3>1 DEF p
  <2>. QED BY <2>1, <2>5, <2>6
<1>2. CASE r \in {"node", "node_branch"}
  BY <1>2, SpectreHomesAre DEF SpectreUnvisited
<1>3. CASE r = "node_list_item"
  <2>. DEFINE K == DOMAIN w
              v == <<>>
  <2>1. p = [V!Adding("Node", w, K) EXCEPT !.visits = v]
    BY <1>3, SpectreCopies DEF Spectre!VisitNodes
  <2>2. Takes("spectre", c, "Node")
    BY <1>3, SpectreHomesAre, SpectreTakes DEF SpectreNodes
  <2>3. Items("spectre", c, v)
    BY NullIsItems
  <2>. HIDE DEF p, K, v
  <2>4. PlanFits("spectre", p, c)
    BY <2>1, <2>2, <2>3, AddingPicked
  <2>. QED BY <2>4 DEF p
<1>4. CASE r \notin SpectreNodeRules \cup {"node", "node_branch"}
  <2>1. p = Spectre!VisitExpressions(r, w)
    BY <1>4 DEF Spectre!VisitNodes, SpectreNodeRules
  <2>2. r \notin SpectreBeyondValues
    BY <1>4 DEF SpectreBeyondValues
  <2>. QED BY <2>1, <2>2, SpectreExpressionsFit
<1>. QED BY <1>1, <1>2, <1>3, <1>4 DEF SpectreNodeRules
-----------------------------------------------------------------------------
LEMMA SpectreComponentsFit ==
  ASSUME NEW r, r \notin SpectreFileRules \cup SpectreAnalysisRules,
         NEW c \in SpectreHome(r), NEW w, Suits("spectre", r, w)
  PROVE  PlanFits("spectre", Spectre!VisitComponents(r, w), c)
<1>. DEFINE p == Spectre!VisitComponents(r, w)
<1>0. Len(w) \in Nat /\ DOMAIN w = 1..Len(w)
  BY SuitsFacts
<1>1. r \in SpectreStatements \cup {"lang"} => \A a : Takes("spectre", c, a)
  <2>1. r \in SpectreStatements \cup {"lang"} => c \in SpectreScopes
    BY SpectreHomesAre DEF SpectreSubcktParts, SpectreScopes
  <2>. QED BY <2>1, SpectreTakes
<1>2. CASE \/ r = "lang" /\ Spectre!Has(w, "ID")
           \/ r \in {"option", "info"}
  <2>1. \E o \in {"Control", "Analysis"} : \E K :
          o \in Inside("spectre", r) /\ p = V!Opening(o, w, K)
    BY <1>2, SpectreCopies
       DEF Spectre!VisitComponents, Inside, SpectreInside
  <2>2. "Control" # "none" /\ "Analysis" # "none"
    OBVIOUS
  <2>3. \A a : Takes("spectre", c, a)
    BY <1>1, <1>2 DEF SpectreStatements
  <2>. QED BY <2>1, <2>2, <2>3, OpeningFits
<1>3. CASE r = "save"
  <2>. DEFINE v == V!Each(w, "parameter_list", "accept")
              K == V!All(w, "ID")
  <2>1. p = [V!Opening("Control", w, K) EXCEPT !.visits = v]
    BY <1>3, SpectreCopies DEF Spectre!VisitComponents
  <2>2. "Control" \in Home("spectre", "parameter_list")
    BY SpectreHomesOfPicked DEF Home
  <2>3. V!Has(w, "parameter_list") =>
          Fits("spectre", V!Item("parameter_list", "accept", FALSE), "Control")
    BY <2>2, AcceptedFits
  <2>4. Items("spectre", "Control", v)
    BY <1>0, <2>3, EachAreItems
  <2>5. Takes("spectre", c, "Control") /\ "Control" \in Classes
    BY <1>1, <1>3 DEF SpectreStatements, Classes
  <2>. HIDE DEF p, v, K
  <2>6. PlanFits("spectre", p, c)
    BY <2>1, <2>4, <2>5, OpeningPicked
  <2>. QED BY <2>6 DEF p
<1>4. CASE r = "model"
  <2>. DEFINE v == V!Each(w, "parameter_assign", "accept")
              K == V!All(w, "model_name") \cup V!All(w, "model_master")
  <2>1. \/ p = V!Failing("crashed", w)
        \/ p = [V!Opening("Model", w, K) EXCEPT !.visits = v]
    BY <1>4, SpectreCopies DEF Spectre!VisitComponents
  <2>2. "Model" \in Home("spectre", "parameter_assign")
    BY SpectreHomesOfPicked DEF Home
  <2>3. V!Has(w, "parameter_assign") =>
          Fits("spectre", V!Item("parameter_assign", "accept", FALSE), "Model")
    BY <2>2, AcceptedFits
  <2>4. Items("spectre", "Model", v)
    BY <1>0, <2>3, EachAreItems
  <2>5. Takes("spectre", c, "Model") /\ "Model" \in Classes
    BY <1>1, <1>4 DEF SpectreStatements, Classes
  <2>. HIDE DEF p, v, K
  <2>6. CASE p = V!Failing("crashed", w)
    <3>1. "crashed" # ""
      OBVIOUS
    <3>2. PlanFits("spectre", p, c)
      BY <2>6, <3>1, FailingFits
    <3>. QED BY <3>2 DEF p
  <2>7. CASE p = [V!Opening("Model", w, K) EXCEPT !.visits = v]
    <3>1. PlanFits("spectre", p, c)
      BY <2>7, <2>4, <2>5, OpeningPicked
    <3>. QED BY <3>1 DEF p
  <2>. QED BY <2>1, <2>6, <2>7
<1>5. CASE r = "component"
  <2>1. \/ p = V!Failing("crashed", w)
        \/ \E K : p = V!Opening("Component", w, K)
    BY <1>5, SpectreCopies DEF Spectre!VisitComponents
  <2>2. "Component" \in Inside("spectre", r)
    BY <1>5 DEF Inside, SpectreInside
  <2>3. Takes("spectre", c, "Component")
    BY <1>1, <1>5 DEF SpectreStatements
  <2>4. CASE p = V!Failing("crashed", w)
    <3>1. "crashed" # ""
      OBVIOUS
    <3>. HIDE DEF p
    <3>2. PlanFits("spectre", p, c)
      BY <2>4, <3>1, FailingFits
    <3>. QED BY <3>2 DEF p
  <2>5. CASE \E K : p = V!Opening("Component", w, K)
    BY <2>2, <2>3, <2>5, OpeningFits
  <2>. QED BY <2>1, <2>4, <2>5
<1>6. CASE r \in {"component_value", "component_value_list"}
  <2>1. c = "Component"
    BY <1>6, SpectreHomesAre DEF SpectreComponents
  <2>2. /\ c \in SpectreExpressionHomes
        /\ "ValueList" \in SpectreExpressionHomes
        /\ "ValueList" \in V!Values /\ "ValueList" \in Classes
    BY <2>1 DEF SpectreExpressionHomes, V!Values, Classes
  <2>3. CASE r = "component_value"
    <3>. DEFINE v == V!First(w, "expression", "accept")
    <3>1. Items("spectre", c, v)
      BY <1>0, <2>2, ExpressionsAreItems
    <3>2. KeepsTo(p, {}, "none", v)
      <4>1. <<>> \in PlacesLeft
        BY DEF PlacesLeft
      <4>2. p = [V!Visit(w, {}) EXCEPT !.visits = v, !.casts = TRUE,
                                       !.returns = "last"]
        BY <2>3, SpectreCopies DEF Spectre!VisitComponents
      <4>. HIDE DEF p, v
      <4>. QED BY <4>1, <4>2
             DEF V!Visit, V!Nothing, V!Object, KeepsTo, Ways
    <3>. HIDE DEF p, v
    <3>3. PlanFits("spectre", p, c)
      BY <3>1, <3>2, KeptFits
    <3>. QED BY <3>3 DEF p
  <2>4. CASE r = "component_value_list"
    <3>. DEFINE v == V!Each(w, "expression", "accept")
    <3>1. p = [V!Opening("ValueList", w, {}) EXCEPT !.visits = v]
      BY <2>4, SpectreCopies DEF Spectre!VisitComponents
    <3>2. Items("spectre", "ValueList", v)
      BY <1>0, <2>2, ExpressionsAreItems
    <3>3. Takes("spectre", c, "ValueList")
      BY <2>2, SpectreTakes
    <3>. HIDE DEF p, v
    <3>4. PlanFits("spectre", p, c)
      BY <3>1, <3>2, <3>3, <2>2, OpeningPicked
    <3>. QED BY <3>4 DEF p
  <2>. QED BY <1>6, <2>3, <2>4
<1>7. CASE r = "lang" /\ ~Spectre!Has(w, "ID")
  <2>1. p = V!Visit(w, {})
    BY <1>7, SpectreCopies
       DEF Spectre!VisitComponents, Spectre!VisitNodes,
           Spectre!VisitExpressions
  <2>2. c \in Inside("spectre", r)
    BY <1>7, SpectreHomesAre DEF Inside, SpectreInside, SpectreSubcktParts
  <2>. QED BY <2>1, <2>2, VisitFits
<1>8. CASE r \notin SpectreComponentRules
  <2>1. p = Spectre!VisitNodes(r, w)
    BY <1>8 DEF Spectre!VisitComponents, SpectreComponentRules
  <2>2. r \notin SpectreBeyondNodes
    BY <1>8 DEF SpectreBeyondNodes
  <2>. QED BY <2>1, <2>2, SpectreNodesFit
<1>. QED BY <1>2, <1>3, <1>4, <1>5, <1>6, <1>7, <1>8
        DEF SpectreComponentRules

LEMMA SpectreAnalysesFit ==
  ASSUME NEW r, r \notin SpectreFileRules,
         NEW c \in SpectreHome(r), NEW w, Suits("spectre", r, w)
  PROVE  PlanFits("spectre", Spectre!VisitAnalyses(r, w), c)
<1>. DEFINE p == Spectre!VisitAnalyses(r, w)
            H == {"sweep_header", "montecarlo_header"}
<1>1. CASE r \in SpectreAnalysisRules
  <2>1. \E K : p = V!Opening("Analysis", w, K)
    BY <1>1, SpectreCopies DEF Spectre!VisitAnalyses, SpectreAnalysisRules
  <2>2. "Analysis" \in Inside("spectre", r)
    BY <1>1 DEF Inside, SpectreInside, SpectreAnalysisRules
  <2>3. Takes("spectre", c, "Analysis")
    <3>1. c \in SpectreScopes
      BY <1>1, SpectreHomesAre DEF SpectreStatements, SpectreAnalysisRules
    <3>. QED BY <3>1, SpectreTakes
  <2>. QED BY <2>1, <2>2, <2>3, OpeningFits
<1>2. CASE r \in H
  <2>1. \E K : p = V!Visit(w, K)
    BY <1>2, SpectreCopies DEF Spectre!VisitAnalyses
  <2>2. r \notin SpectreBeyondValues \cup SpectreValueRules
    BY <1>2 DEF SpectreBeyondValues, SpectreBeyondNodes, SpectreFileRules,
         SpectreAnalysisRules, SpectreComponentRules, SpectreNodeRules,
         SpectreValueRules
  <2>. QED BY <2>1, <2>2, SpectreVisitFits
<1>3. CASE r \notin SpectreAnalysisRules \cup H
  <2>1. p = Spectre!VisitComponents(r, w)
    BY <1>3 DEF Spectre!VisitAnalyses, SpectreAnalysisRules
  <2>. QED BY <2>1, <1>3, SpectreComponentsFit
<1>. QED BY <1>1, <1>2, <1>3

(* A child that must hold a token, as the header of a library.              *)
LEMMA HeaderFits ==
  ASSUME NEW l, NEW c, NEW s, c \in Home(l, s), NEW K, NEW fault, NEW i,
         i = [V!Item(s, "accept", FALSE) EXCEPT !.must = K, !.lacking = fault]
  PROVE  IsItem(i) /\ Fits(l, i, c)
<1>. DEFINE j == V!Item(s, "accept", FALSE)
<1>1. \A i0, x : i0 = [rule |-> i0.rule, how |-> i0.how, text |-> i0.text,
                    must |-> i0.must, lacking |-> i0.lacking,
                    depth |-> i0.depth]
        => [i0 EXCEPT !.must = x] =
             [rule |-> i0.rule, how |-> i0.how, text |-> i0.text, must |-> x,
              lacking |-> i0.lacking, depth |-> i0.depth]
  OBVIOUS
<1>2. \A i0, y : i0 = [rule |-> i0.rule, how |-> i0.how, text |-> i0.text,
                    must |-> i0.must, lacking |-> i0.lacking,
                    depth |-> i0.depth]
        => [i0 EXCEPT !.lacking = y] =
             [rule |-> i0.rule, how |-> i0.how, text |-> i0.text,
              must |-> i0.must, lacking |-> y, depth |-> i0.depth]
  OBVIOUS
<1>3. \A i0, x, y : IsItem(i0) => IsItem([[i0 EXCEPT !.must = x]
                                             EXCEPT !.lacking = y])
  <2>1. \A i0, x : IsItem(i0) => IsItem([i0 EXCEPT !.must = x])
    BY <1>1, Zenon DEF IsItem
  <2>2. \A i0, y : IsItem(i0) => IsItem([i0 EXCEPT !.lacking = y])
    BY <1>2, Zenon DEF IsItem
  <2>. QED BY <2>1, <2>2
<1>4. \A i0, x, y : [i0 EXCEPT !.must = x, !.lacking = y]
                     = [[i0 EXCEPT !.must = x] EXCEPT !.lacking = y]
  OBVIOUS
<1>5. IsItem(j)
  BY DEF V!Item, IsItem
<1>6. i.rule = s /\ i.how = "accept"
  BY DEF V!Item
<1>. HIDE DEF j
<1>7. IsItem(i)
  BY <1>3, <1>4, <1>5, Zenon DEF j
<1>. QED BY <1>6, <1>7 DEF Fits

(* Every visit function of the Spectre frontend can be called where it is.  *)
LEMMA SpectrePlansFit ==
  ASSUME NEW r, NEW c \in SpectreHome(r), NEW w, Suits("spectre", r, w)
  PROVE  PlanFits("spectre", Spectre!Plan(r, w, c), c)
<1>. DEFINE p == Spectre!Plan(r, w, c)
            I == {"standard_include", "cpp_include", "ahdl_include"}
            H == {"library_header", "subckt_header"}
<1>0. Len(w) \in Nat /\ DOMAIN w = 1..Len(w)
      /\ \A i \in DOMAIN w : Inside("spectre", r) \subseteq Home("spectre", w[i])
  BY SuitsFacts
<1>1. CASE r = "netlist"
  <2>. DEFINE v == V!Visit(w, {}).visits
  <2>1. p = [V!Opening("Circuit", w, {}) EXCEPT !.attached = FALSE]
    BY <1>1, SpectreCopies DEF Spectre!Plan
  <2>2. "Circuit" \in Inside("spectre", r) /\ "Circuit" \in Classes
    BY <1>1 DEF Inside, SpectreInside, Classes
  <2>3. Items("spectre", "Circuit", v)
    BY <2>2, AllAreItems
  <2>. HIDE DEF p, v
  <2>4. OpensFor(p, "Circuit", v)
    BY <2>1, PlacesAre DEF V!Opening, V!Visit, V!Object, OpensFor, Ways, v
  <2>5. Takes("spectre", c, "Circuit")
    BY <1>1, SpectreHomesAre, SpectreTakes
  <2>6. PlanFits("spectre", p, c)
    BY <2>2, <2>3, <2>4, <2>5, OpenedFits
  <2>. QED BY <2>6 DEF p
<1>2. CASE r = "netlist_title"
  <2>. DEFINE v == <<>>
              K == DOMAIN w
  <2>1. p = [V!Visit(w, K) EXCEPT !.visits = v]
    BY <1>2, SpectreCopies DEF Spectre!Plan
  <2>2. Items("spectre", c, v)
    BY NullIsItems
  <2>. HIDE DEF p, v, K
  <2>3. PlanFits("spectre", p, c)
    BY <2>1, <2>2, VisitPicked
  <2>. QED BY <2>3 DEF p
<1>3. CASE r \in I
  <2>1. \E K : p = V!Opening("Include", w, K)
    BY <1>3, SpectreCopies DEF Spectre!Plan
  <2>2. "Include" \in Inside("spectre", r)
    BY <1>3 DEF Inside, SpectreInside
  <2>3. c \in SpectreScopes
    BY <1>3, SpectreHomesAre DEF SpectreStatements
  <2>. QED BY <2>1, <2>2, <2>3, SpectreTakes, OpeningFits
<1>4. CASE r \in {"library", "subckt"}
  <2>. DEFINE o == IF r = "library" THEN "Library" ELSE "Circuit"
              header == IF r = "library" THEN "library_header"
                        ELSE "subckt_header"
              v == [i \in DOMAIN w |->
                      IF i \in Spectre!At(w, header, {0})
                      THEN [Spectre!Accept(w[i]) EXCEPT
                              !.must = {"ID"}, !.lacking = "crashed"]
                      ELSE Spectre!Accept(w[i])]
  <2>1. \/ p = V!Failing("crashed", w)
        \/ p = [Spectre!Opening(o, w, {}) EXCEPT !.visits = v]
    <3>1. CASE r = "library"
      BY <3>1, SpectreCopies DEF Spectre!Plan
    <3>2. CASE r = "subckt"
      BY <3>2, SpectreCopies DEF Spectre!Plan
    <3>. QED BY <1>4, <3>1, <3>2
  <2>2. o \in Inside("spectre", r) /\ o \in Classes /\ o # "none"
    BY <1>4 DEF Inside, SpectreInside, Classes
  <2>3. \A i \in 1..Len(w) : IsItem(v[i]) /\ Fits("spectre", v[i], o)
    <3>. SUFFICES ASSUME NEW i \in 1..Len(w)
                  PROVE  IsItem(v[i]) /\ Fits("spectre", v[i], o)
      OBVIOUS
    <3>1. \/ v[i] = V!Item(w[i], "accept", FALSE)
          \/ v[i] = [V!Item(w[i], "accept", FALSE) EXCEPT
                       !.must = {"ID"}, !.lacking = "crashed"]
      BY <1>0, SpectreCopies
    <3>2. o \in Home("spectre", w[i])
      BY <1>0, <2>2
    <3>. HIDE DEF v, o
    <3>3. CASE v[i] = V!Item(w[i], "accept", FALSE)
      BY <3>2, <3>3, AcceptFits
    <3>4. CASE v[i] = [V!Item(w[i], "accept", FALSE) EXCEPT
                         !.must = {"ID"}, !.lacking = "crashed"]
      BY <3>2, <3>4, HeaderFits
    <3>. QED BY <3>1, <3>3, <3>4
  <2>4. v = [i \in 1..Len(w) |-> v[i]]
    BY <1>0
  <2>. HIDE DEF v
  <2>5. Items("spectre", o, v)
    BY <1>0, <2>3, <2>4, ItemsFacts
  <2>6. c \in SpectreScopes
    BY <1>4, SpectreHomesAre DEF SpectreStatements
  <2>7. Takes("spectre", c, o) /\ "crashed" # ""
    BY <2>6, SpectreTakes
  <2>8. Spectre!Opening(o, w, {}) = V!Opening(o, w, {})
    BY SpectreCopies
  <2>. HIDE DEF p, o
  <2>9. CASE p = V!Failing("crashed", w)
    <3>1. PlanFits("spectre", p, c)
      BY <2>7, <2>9, FailingFits
    <3>. QED BY <3>1 DEF p
  <2>10. CASE p = [Spectre!Opening(o, w, {}) EXCEPT !.visits = v]
    <3>1. PlanFits("spectre", p, c)
      BY <2>2, <2>5, <2>7, <2>8, <2>10, OpeningPicked
    <3>. QED BY <3>1 DEF p
  <2>. QED BY <2>1, <2>9, <2>10
<1>5. CASE r \in H
  <2>1. \E K : p = V!Visit(w, K)
    BY <1>5, SpectreCopies DEF Spectre!Plan
  <2>2. r \notin SpectreBeyondValues \cup SpectreValueRules
    BY <1>5 DEF SpectreBeyondValues, SpectreBeyondNodes, SpectreFileRules,
         SpectreAnalysisRules, SpectreComponentRules, SpectreNodeRules,
         SpectreValueRules
  <2>. QED BY <2>1, <2>2, SpectreVisitFits
<1>6. CASE r \notin SpectreFileRules \cup H
  <2>1. p = Spectre!VisitAnalyses(r, w)
    BY <1>6 DEF Spectre!Plan, SpectreFileRules
  <2>. QED BY <2>1, <1>6, SpectreAnalysesFit
<1>. QED BY <1>1, <1>2, <1>3, <1>4, <1>5, <1>6 DEF SpectreFileRules
-----------------------------------------------------------------------------
(* The visit functions of both frontends, and the two ways around them.     *)
LEMMA CallingFits ==
  ASSUME NEW item, NEW w, NEW c, c = Back.class, language \in Langs,
         Waits(language, item, c), item.how # "read", item.rule # "null",
         Suits(language, item.rule, w)
  PROVE  PlanFits(language, Calling(item, w), c)
<1>0. language \in {"eldo", "spectre"}
  BY FrontendAssumption
<1>1. Fits(language, item, c)
  BY DEF Waits
<1>2. CASE item.how = "accept"
  <2>1. Calling(item, w) = Plan(language, item.rule, w, c)
    BY <1>2 DEF Calling
  <2>2. c \in Home(language, item.rule)
    BY <1>1, <1>2 DEF Fits
  <2>3. CASE language = "eldo"
    <3>1. Plan(language, item.rule, w, c) = Eldo!Plan(item.rule, w, c)
      BY <2>3 DEF Plan
    <3>2. c \in EldoHome(item.rule) /\ Suits("eldo", item.rule, w)
      BY <2>2, <2>3 DEF Home
    <3>3. PlanFits("eldo", Eldo!Plan(item.rule, w, c), c)
      BY <3>2, EldoPlansFit
    <3>. QED BY <2>1, <2>3, <3>1, <3>3
  <2>4. CASE language = "spectre"
    <3>1. Plan(language, item.rule, w, c) = Spectre!Plan(item.rule, w, c)
      BY <2>4 DEF Plan
    <3>2. c \in SpectreHome(item.rule) /\ Suits("spectre", item.rule, w)
      BY <2>2, <2>4 DEF Home
    <3>3. PlanFits("spectre", Spectre!Plan(item.rule, w, c), c)
      BY <3>2, SpectrePlansFit
    <3>. QED BY <2>1, <2>4, <3>1, <3>3
  <2>. QED BY <1>0, <2>3, <2>4
<1>3. CASE item.how = "children"
  <2>1. Calling(item, w) = V!Visit(w, {})
    BY <1>3 DEF Calling
  <2>2. c \in Inside(language, item.rule)
    BY <1>1, <1>3 DEF Fits
  <2>3. PlanFits(language, V!Visit(w, {}), c)
    BY <2>2, VisitFits
  <2>. QED BY <2>1, <2>3
<1>4. CASE item.how = "Parameter"
  <2>. DEFINE p == Calling(item, w)
              v == V!Visit(w, {}).visits
  <2>1. p = [V!Opening("Parameter", w, {}) EXCEPT !.opens.free = <<"right">>]
    BY <1>4 DEF Calling
  <2>2. "Parameter" \in Inside(language, item.rule)
        /\ Takes(language, c, "Parameter")
    BY <1>1, <1>4 DEF Fits
  <2>3. Items(language, "Parameter", v)
    BY <2>2, AllAreItems
  <2>. HIDE DEF p, v
  <2>4. OpensFor(p, "Parameter", v)
    <3>1. <<"right">> \in PlacesLeft
      BY DEF PlacesLeft
    <3>. QED BY <2>1, <3>1
           DEF V!Opening, V!Visit, V!Object, OpensFor, Ways, v
  <2>5. "Parameter" \in Classes
    BY DEF Classes
  <2>6. PlanFits(language, p, c)
    BY <2>2, <2>3, <2>4, <2>5, OpenedFits
  <2>. QED BY <2>6 DEF p
<1>. QED BY <1>1, <1>2, <1>3, <1>4 DEF Fits

LEMMA PlansFit ==
  ASSUME NEW item, NEW w, NEW c, c = Back.class, language \in Langs,
         Waits(language, item, c), item.how # "read", item.rule # "null",
         Suits(language, item.rule, w), NEW p \in Plans(item, w)
  PROVE  PlanFits(language, p, c)
<1>1. PlanFits(language, Calling(item, w), c)
  BY CallingFits
<1>2. PlanFits(language, NoLeaf(w), c)
  <2>1. "null" \in Ways
    BY DEF Ways
  <2>. QED BY <2>1, LeafFits
<1>3. NoLeaf(w) = Spectre!VisitUnread(w)
  BY SpectreCopies DEF NoLeaf, Spectre!VisitUnread
<1>4. p = Calling(item, w) \/ p = Spectre!VisitUnread(w)
  BY DEF Plans
<1>. QED BY <1>1, <1>2, <1>3, <1>4
-----------------------------------------------------------------------------
(* The function that Chosen defines by recursion exists.                    *)
ChosenUpTo(s, K, m, f) ==
  f = [n \in 0..m |-> IF n = 0 THEN <<>>
                      ELSE IF n \in K THEN Append(f[n - 1], s[n]) ELSE f[n - 1]]

LEMMA ChosenExists ==
  ASSUME NEW s, NEW K, NEW m \in Nat
  PROVE  \E f : ChosenUpTo(s, K, m, f)
<1>. DEFINE M == {k \in Nat : ~ \E f : ChosenUpTo(s, K, k, f)}
<1>. SUFFICES ASSUME M # {} PROVE FALSE
  OBVIOUS
<1>1. PICK k \in M : \A j \in M : ~ (j < k)
  BY Least
<1>2. CASE k = 0
  <2>. DEFINE f == [i \in 0..0 |-> <<>>]
  <2>1. ChosenUpTo(s, K, 0, f)
    BY DEF ChosenUpTo
  <2>. QED BY <2>1, <1>2
<1>3. CASE k # 0
  <2>1. k - 1 \in Nat /\ k - 1 < k /\ k \in Nat
    BY <1>3
  <2>2. PICK f : ChosenUpTo(s, K, k - 1, f)
    BY <2>1, <1>1
  <2>. DEFINE x == IF k \in K THEN Append(f[k - 1], s[k]) ELSE f[k - 1]
              g == [i \in 0..k |-> IF i = k THEN x ELSE f[i]]
              h == [i \in 0..k |-> IF i = 0 THEN <<>>
                                   ELSE IF i \in K THEN Append(g[i - 1], s[i])
                                   ELSE g[i - 1]]
  <2>3. \A i \in 0..k : g[i] = h[i]
    <3>. SUFFICES ASSUME NEW i \in 0..k PROVE g[i] = h[i]
      OBVIOUS
    <3>1. CASE i = k
      <4>1. g[i - 1] = f[k - 1]
        BY <3>1, <2>1
      <4>2. g[i] = x /\ h[i] = IF i \in K THEN Append(g[i - 1], s[i])
                               ELSE g[i - 1]
        BY <3>1, <2>1, <1>3
      <4>. QED BY <4>1, <4>2, <3>1
    <3>2. CASE i # k
      <4>1. i \in 0..(k - 1) /\ g[i] = f[i]
        BY <3>2, <2>1
      <4>2. f[i] = IF i = 0 THEN <<>>
                   ELSE IF i \in K THEN Append(f[i - 1], s[i]) ELSE f[i - 1]
        BY <4>1, <2>2 DEF ChosenUpTo
      <4>3. i # 0 => g[i - 1] = f[i - 1]
        BY <4>1, <2>1
      <4>. QED BY <4>1, <4>2, <4>3
    <3>. QED BY <3>1, <3>2
  <2>4. g = h
    BY <2>3
  <2>5. ChosenUpTo(s, K, k, g)
    BY <2>4 DEF ChosenUpTo
  <2>. QED BY <2>5
<1>. QED BY <1>2, <1>3

(* What is chosen are elements at the positions asked for.                  *)
LEMMA ChosenFacts ==
  ASSUME NEW s, IsSeq(s), NEW K, K \subseteq DOMAIN s
  PROVE  Chosen(s, K) \in Seq({s[i] : i \in K})
<1>. DEFINE m == Len(s)
            S == {s[i] : i \in K}
            f == CHOOSE f : ChosenUpTo(s, K, m, f)
<1>0. m \in Nat /\ DOMAIN s = 1..m
  BY SeqFacts
<1>1. ChosenUpTo(s, K, m, f)
  BY <1>0, ChosenExists
<1>2. Chosen(s, K) = f[m]
  BY Zenon DEF Chosen, ChosenUpTo
<1>. HIDE DEF f
<1>3. \A n \in K : s[n] \in S
  OBVIOUS
<1>. HIDE DEF S
<1>4. \A n \in 0..m : f[n] \in Seq(S)
  <2>. DEFINE N == {n \in 0..m : f[n] \notin Seq(S)}
  <2>. SUFFICES ASSUME N # {} PROVE FALSE
    OBVIOUS
  <2>0. N \subseteq Nat /\ N # {}
    BY <1>0
  <2>1. PICK n \in N : \A j \in N : ~ (j < n)
    BY <2>0, Least, Zenon
  <2>2. n # 0
    <3>1. f[0] = <<>>
      BY <1>0, <1>1 DEF ChosenUpTo
    <3>2. <<>> \in Seq(S)
      OBVIOUS
    <3>. QED BY <3>1, <3>2
  <2>3. n - 1 \in 0..m /\ n - 1 < n /\ n \in 0..m
    BY <2>2, <1>0
  <2>4. f[n - 1] \in Seq(S)
    BY <2>1, <2>3
  <2>5. f[n] = IF n \in K THEN Append(f[n - 1], s[n]) ELSE f[n - 1]
    BY <1>1, <2>2, <2>3 DEF ChosenUpTo
  <2>6. n \in K => Append(f[n - 1], s[n]) \in Seq(S)
    BY <1>3, <2>4, AppendProperties
  <2>. QED BY <2>1, <2>4, <2>5, <2>6
<1>5. f[m] \in Seq(S)
  BY <1>0, <1>4
<1>. QED BY <1>2, <1>5 DEF S

(* A visit that is one step deeper is the same visit.                       *)
LEMMA DeeperIs ==
  ASSUME NEW i, IsItem(i), NEW d, NEW j, j = [i EXCEPT !.depth = d]
  PROVE  IsItem(j) /\ j.rule = i.rule /\ j.how = i.how /\ j.depth = d
<1>1. j =
        [rule |-> i.rule, how |-> i.how, text |-> i.text, must |-> i.must,
         lacking |-> i.lacking, depth |-> d]
  BY DEF IsItem
<1>. QED BY <1>1 DEF IsItem

(* What is left of a plan's visits waits where they could be made.          *)
LEMMA RelevantWait ==
  ASSUME NEW item, item.depth \in Nat, NEW p, NEW c,
         Items(language, c, p.visits),
         NEW todo, todo = Relevant(item, p),
         \A i \in DOMAIN todo : todo[i].depth <= MaxDepth
  PROVE  /\ IsSeq(todo)
         /\ \A j \in 1..Len(todo) : Waits(language, todo[j], c)
<1>. DEFINE Matters(i) == \/ i.rule = "null"
                          \/ i.how = "read"
                          \/ /\ IsRule(language, i.rule)
                             /\ i.rule \notin Silent(language)
            v == p.visits
            K == {i \in DOMAIN v : Matters(v[i])}
            S == {v[i] : i \in K}
            u == Chosen(v, K)
            DeepOf(i) == IF <<item.rule, i.rule>> \in Deepens
                         THEN item.depth + 1 ELSE item.depth
<1>1. u \in Seq(S)
  BY ChosenFacts DEF Items
<1>2. todo = [i \in DOMAIN u |-> [u[i] EXCEPT !.depth = DeepOf(u[i])]]
  BY Zenon DEF Relevant
<1>3. \A x \in S : IsItem(x) /\ Fits(language, x, c) /\ Matters(x)
  BY DEF Items
<1>. HIDE DEF S, K, u, v, Matters
<1>4. Len(u) \in Nat /\ DOMAIN u = 1..Len(u) /\ \A i \in 1..Len(u) : u[i] \in S
  BY <1>1, LenProperties, ElementOfSeq
<1>. DEFINE T == {todo[i] : i \in DOMAIN todo}
<1>5. DOMAIN todo = 1..Len(u) /\ todo \in [1..Len(u) -> T]
  BY <1>2, <1>4
<1>. HIDE DEF T
<1>6. todo \in Seq(T)
  BY <1>4, <1>5, IsASeq
<1>7. IsSeq(todo) /\ Len(todo) = Len(u)
  <2>1. IsSeq(todo)
    BY <1>6, OwnRange
  <2>. QED BY <2>1, <1>4, <1>5, <1>6, LenProperties
<1>8. ASSUME NEW j \in 1..Len(u)
      PROVE  Waits(language, todo[j], c)
  <2>. DEFINE d == DeepOf(u[j])
              x == u[j]
  <2>1. IsItem(x) /\ Fits(language, x, c) /\ Matters(x)
    BY <1>3, <1>4
  <2>2. todo[j] = [x EXCEPT !.depth = d]
    BY <1>2, <1>4
  <2>3. d \in Nat
    OBVIOUS
  <2>. HIDE DEF d, x
  <2>4. /\ IsItem(todo[j]) /\ todo[j].rule = x.rule /\ todo[j].how = x.how
        /\ todo[j].depth = d
    BY <2>1, <2>2, DeeperIs
  <2>5. todo[j].depth \in 0..MaxDepth
    <3>1. todo[j].depth <= MaxDepth
      BY <1>5
    <3>2. MaxDepth \in Nat
      BY FrontendAssumption
    <3>. QED BY <2>3, <2>4, <3>1, <3>2
  <2>6. Fits(language, todo[j], c)
    BY <2>1, <2>4 DEF Fits
  <2>7. \/ todo[j].how = "read" \/ todo[j].rule = "null"
        \/ IsRule(language, todo[j].rule)
    BY <2>1, <2>4 DEF Matters
  <2>. QED BY <2>4, <2>5, <2>6, <2>7 DEF Waits, IsItem
<1>. QED BY <1>7, <1>8
-----------------------------------------------------------------------------
(* What is added goes where NothingIsDropped allows, and ends nothing.      *)
AddsWell(a) ==
  /\ a.how \notin {"aborted", "crashed"}
  /\ a.how \in {"dropped", "null"} =>
       \/ a.to = "Node" /\ a.what = "Node"
       \/ language = "spectre" /\ a.to = "Library"
  /\ a.how = "thrown" =>
       /\ a.what \in V!Values
       /\ a.to \in {"Expression", "ExpressionUnary", "Parameter"}

LEMMA ReceptionFits ==
  ASSUME language \in Langs, NEW p, p.free \in PlacesLeft,
         NEW c, Takes(language, p.class, c), NEW a,
         a = [to |-> p.class, what |-> c, how |-> Reception(p, c)]
  PROVE  AddsWell(a) /\ (a.how \in PlaceNames => p.free # <<>>)
<1>. DEFINE how == Reception(p, c)
            value == c \in V!Values
<1>0. language = "eldo" \/ language = "spectre"
  BY FrontendAssumption
<1>1. a.to = p.class /\ a.what = c /\ a.how = how
  OBVIOUS
<1>2. p.free # <<>> => Head(p.free) \in PlaceNames
  BY DEF PlacesLeft, PlaceNames
<1>3. \/ how \in {"root", "held", "wrapped"}
      \/ how = "thrown" /\ value /\ p.free = <<>>
           /\ p.class \in {"Expression", "ExpressionUnary", "Parameter"}
      \/ how \in PlaceNames /\ p.free # <<>>
      \/ how = "dropped" /\ \/ p.class = "Node" /\ c = "Node"
                            \/ language = "spectre" /\ p.class = "Library"
  <2>1. CASE p.class \in Scopes \cup {"none"}
    BY <2>1 DEF Reception, Scopes
  <2>2. CASE p.class = "Analysis"
    BY <2>2, <1>0 DEF Reception, Takes, Scopes
  <2>3. CASE p.class \in {"Component", "FunctionCall"}
    BY <2>3 DEF Reception, Takes, Scopes
  <2>4. CASE p.class \in {"Control", "Include", "Model"}
    BY <2>4 DEF Reception, Takes, Scopes, V!Values
  <2>5. CASE p.class = "ValueList"
    BY <2>5 DEF Reception, Takes, Scopes
  <2>6. CASE p.class \in {"Expression", "ExpressionUnary", "Parameter"}
    <3>1. value
      BY <2>6 DEF Takes, Scopes
    <3>2. how = IF p.free = <<>> THEN "thrown" ELSE Head(p.free)
      BY <2>6, <3>1 DEF Reception, Scopes
    <3>. QED BY <2>6, <3>1, <3>2, <1>2
  <2>7. CASE p.class = "Node" \/ p.class = "Library"
    BY <2>7 DEF Reception, Takes, Scopes
  <2>. QED BY <2>1, <2>2, <2>3, <2>4, <2>5, <2>6, <2>7 DEF Takes
<1>. HIDE DEF how, value
<1>. QED BY <1>1, <1>3 DEF AddsWell, PlaceNames, value

LEMMA NotAddedFits == AddsWell(NotAdded) /\ NotAdded.how \notin PlaceNames
BY DEF AddsWell, NotAdded, PlaceNames
-----------------------------------------------------------------------------
(* An object keeps the places of some class when one of them is taken.      *)
LEMMA TailsAreLeft ==
  ASSUME NEW free \in PlacesLeft, free # <<>>
  PROVE  Tail(free) \in PlacesLeft
<1>1. \A a : Tail(<<a>>) = <<>>
  OBVIOUS
<1>2. \A a, b : Tail(<<a, b>>) = <<b>>
  OBVIOUS
<1>. QED BY <1>1, <1>2 DEF PlacesLeft

LEMMA ServedPlaced ==
  ASSUME NEW s, Objects(s), Placed(s), s # <<>>, s[Len(s)].free # <<>>
  PROVE  Placed([s EXCEPT ![Len(s)] = Served(s[Len(s)])])
<1>. DEFINE n == Len(s)
            e == Served(s[n])
            t == [s EXCEPT ![n] = e]
<1>1. IsSeq(s) /\ n \in Nat /\ n \in 1..Len(s)
  <2>1. IsSeq(s) /\ n \in Nat /\ s \in Seq({s[i] : i \in DOMAIN s})
    BY SeqFacts DEF Objects, IsSeq
  <2>. QED BY <2>1
<1>2. s[n].class \in Classes /\ s[n].free \in PlacesLeft
  BY <1>1 DEF Placed
<1>3. e.class = s[n].class /\ e.free = Tail(s[n].free)
  BY DEF Served, V!Object
<1>4. e.free \in PlacesLeft
  <2>1. s[n].free # <<>>
    OBVIOUS
  <2>. HIDE DEF e, n
  <2>. QED BY <2>1, <1>2, <1>3, TailsAreLeft
<1>. HIDE DEF e, n
<1>5. Len(t) = Len(s) /\ \A i \in 1..Len(s) : t[i] = IF i = n THEN e ELSE s[i]
  BY <1>1, ChangeFacts
<1>. HIDE DEF t
<1>6. Placed(t)
  BY <1>2, <1>3, <1>4, <1>5 DEF Placed
<1>. QED BY <1>6 DEF t, e, n

LEMMA AddedPlaced ==
  ASSUME NEW s, Objects(s), Placed(s), NEW how,
         how \in PlaceNames => s # <<>> /\ s[Len(s)].free # <<>>
  PROVE  Placed(AddedTo(s, how))
BY ServedPlaced DEF AddedTo, PlaceNames

LEMMA AssignedPlaced ==
  ASSUME NEW s, Objects(s), Placed(s), NEW place
  PROVE  Placed(Assigned(s, place))
BY ServedPlaced DEF Assigned

(* Every visit ends within the stack.                                       *)
LEMMA WithinStack ==
  ASSUME NEW fs, Frames(fs), NEW s, Objects(s), Chain(fs, s),
         NEW i \in 1..Len(fs)
  PROVE  /\ Len(s) \in Nat /\ fs[i].height \in Nat /\ Opens(fs[i]) \in 0..1
         /\ fs[i].height + Opens(fs[i]) <= Len(s)
<1>. DEFINE n == Len(fs)
<1>1. n \in Nat /\ n \in 1..n
  BY SeqFacts DEF Frames
<1>2. Len(s) \in Nat /\ Len(s) = fs[n].height + Opens(fs[n])
  BY SeqFacts DEF Chain, Objects
<1>3. /\ fs[i].height \in Nat /\ Opens(fs[i]) \in 0..1
      /\ fs[n].height \in Nat /\ Opens(fs[n]) \in 0..1
  BY <1>1, OpensFacts DEF Frames
<1>4. i = n \/ fs[i].height + Opens(fs[i]) <= fs[n].height
  BY <1>1 DEF Chain
<1>. QED BY <1>2, <1>3, <1>4

(* What waits can still be visited when no class below has changed.         *)
LEMMA AllReadyKept ==
  ASSUME NEW l, NEW fs, Frames(fs), NEW s, Objects(s), Chain(fs, s),
         NEW u, AllReady(l, fs, u), NEW t,
         \A i \in 1..Len(s) : t[i].class = u[i].class
  PROVE  AllReady(l, fs, t)
<1>. SUFFICES ASSUME NEW i \in 1..Len(fs) PROVE Ready(l, fs[i], t)
  BY DEF AllReady
<1>. DEFINE f == fs[i]
            h == f.height
            k == h + Opens(f)
<1>1. /\ Len(s) \in Nat /\ h \in 0..Len(s) /\ k \in 0..Len(s)
  BY WithinStack
<1>. HIDE DEF h, k
<1>2. \A m \in 0..Len(s) : ClassAt(t, m) = ClassAt(u, m)
  BY <1>1 DEF ClassAt
<1>3. ClassAt(t, h) = ClassAt(u, h) /\ ClassAt(t, k) = ClassAt(u, k)
  BY <1>1, <1>2
<1>4. Ready(l, f, u)
  BY DEF AllReady
<1>. HIDE DEF f
<1>5. Ready(l, f, t)
  BY <1>3, <1>4 DEF Ready, h, k
<1>. QED BY <1>5 DEF f

TodoSeqs(fs) == \A i \in 1..Len(fs) : IsSeq(fs[i].todo)

LEMMA TailFacts ==
  ASSUME NEW s, IsSeq(s), s # <<>>
  PROVE  /\ IsSeq(Tail(s)) /\ Len(s) \in Nat /\ 1 \in 1..Len(s)
         /\ Head(s) = s[1]
         /\ \A j \in 1..Len(Tail(s)) : \E k \in 1..Len(s) : Tail(s)[j] = s[k]
<1>. DEFINE S == {s[i] : i \in DOMAIN s}
<1>1. s \in Seq(S)
  BY DEF IsSeq
<1>. HIDE DEF S
<1>2. /\ Tail(s) \in Seq(S) /\ Len(Tail(s)) = Len(s) - 1 /\ Len(s) \in Nat
      /\ Len(s) # 0
      /\ \A i \in 1..(Len(s) - 1) : Tail(s)[i] = s[i + 1]
  BY <1>1
<1>3. \A j \in 1..Len(Tail(s)) : j + 1 \in 1..Len(s) /\ Tail(s)[j] = s[j + 1]
  BY <1>2
<1>4. Head(s) = s[1] /\ 1 \in 1..Len(s)
  BY <1>1, <1>2
<1>5. IsSeq(Tail(s))
  BY <1>2, OwnRange
<1>. QED BY <1>2, <1>3, <1>4, <1>5

(* Going on to the next item leaves the others waiting.                     *)
LEMMA PoppedReady ==
  ASSUME NEW l, NEW fs, Frames(fs), TodoSeqs(fs), NEW s, AllReady(l, fs, s),
         NEW x, IsSeq(x),
         \A j \in 1..Len(x) : \E k \in 1..Len(fs[Len(fs)].todo) :
           x[j] = fs[Len(fs)].todo[k],
         NEW gs, gs = [fs EXCEPT ![Len(fs)].todo = x]
  PROVE  AllReady(l, gs, s) /\ TodoSeqs(gs)
<1>. DEFINE n == Len(fs)
            e == [fs[n] EXCEPT !.todo = x]
<1>1. IsSeq(fs) /\ n \in Nat /\ n \in 1..Len(fs)
  BY SeqFacts DEF Frames
<1>2. /\ e.todo = x /\ e.height = fs[n].height /\ e.opens = fs[n].opens
      /\ e.returns = fs[n].returns /\ e.after = fs[n].after
  <2>1. fs[n] = [height |-> fs[n].height, opens |-> fs[n].opens,
                 todo |-> fs[n].todo, text |-> fs[n].text,
                 returns |-> fs[n].returns, casts |-> fs[n].casts,
                 after |-> fs[n].after]
    BY <1>1 DEF Frames
  <2>. DEFINE f == fs[n]
  <2>2. f = [height |-> f.height, opens |-> f.opens, todo |-> f.todo,
             text |-> f.text, returns |-> f.returns, casts |-> f.casts,
             after |-> f.after]
    BY <2>1
  <2>. HIDE DEF f
  <2>3. [f EXCEPT !.todo = x] =
             [height |-> f.height, opens |-> f.opens, todo |-> x,
              text |-> f.text, returns |-> f.returns, casts |-> f.casts,
              after |-> f.after]
    BY <2>2
  <2>4. e = [f EXCEPT !.todo = x]
    BY DEF f
  <2>5. /\ e.todo = x /\ e.height = f.height /\ e.opens = f.opens
        /\ e.returns = f.returns /\ e.after = f.after
    BY <2>3, <2>4
  <2>. QED BY <2>5 DEF f
<1>3. gs = [fs EXCEPT ![n] = e]
  OBVIOUS
<1>. HIDE DEF e
<1>4. Len(gs) = n /\ \A i \in 1..n : gs[i] = IF i = n THEN e ELSE fs[i]
  BY <1>1, <1>3, ChangeFacts
<1>5. Ready(l, fs[n], s)
  BY <1>1 DEF AllReady
<1>. HIDE DEF n
<1>6. Ready(l, e, s)
  <2>1. Opens(e) = Opens(fs[n])
    BY <1>2 DEF Opens
  <2>2. \A j \in 1..Len(x) :
          Waits(l, x[j], ClassAt(s, fs[n].height + Opens(fs[n])))
    BY <1>5 DEF Ready, n
  <2>. QED BY <1>2, <1>5, <2>1, <2>2 DEF Ready
<1>7. AllReady(l, gs, s)
  BY <1>1, <1>4, <1>6 DEF AllReady, n
<1>8. TodoSeqs(gs)
  BY <1>2, <1>4 DEF TodoSeqs, n
<1>. QED BY <1>7, <1>8
-----------------------------------------------------------------------------
(* The inductive invariant as a whole.                                      *)
CInv == IInv /\ InContext /\ TodoSeqs(frames)

LEMMA StartsInContext == Init => CInv
<1>. SUFFICES ASSUME Init PROVE CInv
  OBVIOUS
<1>. DEFINE i == V!Accept("netlist")
            f == Frame(0, "none", <<i>>, FALSE, "null", V!Visit(<<>>, {}))
<1>1. /\ frames = <<f>> /\ stack = <<>> /\ outcome = "parsing"
      /\ language \in Langs /\ result = "null" /\ errors = 0
      /\ added = NotAdded
  BY DEF Init
<1>2. /\ f.height = 0 /\ f.opens = "none" /\ f.todo = <<i>>
      /\ f.returns = "null" /\ f.after = "none"
  BY DEF Frame, V!Visit
<1>3. /\ i.rule = "netlist" /\ i.how = "accept" /\ i.depth = 0
      /\ i = [rule |-> i.rule, how |-> i.how, text |-> i.text,
              must |-> i.must, lacking |-> i.lacking, depth |-> i.depth]
  BY DEF V!Accept, V!Item
<1>. HIDE DEF i, f
<1>4. /\ "none" \in EldoHome("netlist") /\ "none" \in SpectreHome("netlist")
      /\ "none" \in Classes
  BY DEF EldoHome, EldoStatements, EldoLibraryParts, EldoLibraryDefParts,
         EldoSubcktParts, EldoAlterParts, EldoAnalyses, EldoComponents,
         EldoControls, EldoModelParts, EldoParameters, EldoParameterParts,
         EldoNodes, EldoExpressions, SpectreHome, SpectreStatements,
         SpectreAnalysisParts, SpectreSubcktParts, SpectreLibraryParts,
         SpectreComponents, SpectreParameters, SpectreNodes,
         SpectreExpressions, SpectreUnvisited, Classes
<1>5. IsRule(language, "netlist")
  BY EldoNamesAre, SpectreNamesAre
     DEF IsRule, EldoNames, EldoRules, SpectreNames, SpectreRules
<1>6. Fits(language, i, "none")
  BY <1>3, <1>4 DEF Fits, Home
<1>7. MaxDepth \in Nat /\ MaxErrors \in Nat
  BY FrontendAssumption
<1>8. Waits(language, i, "none")
  BY <1>3, <1>5, <1>6, <1>7 DEF Waits
<1>9. Ready(language, f, stack)
  <2>1. Len(f.todo) = 1 /\ f.todo[1] = i
    BY <1>2
  <2>2. ClassAt(stack, f.height + Opens(f)) = "none"
    BY <1>2 DEF ClassAt, Opens
  <2>. QED BY <1>2, <1>4, <1>8, <2>1, <2>2 DEF Ready, Ways
<1>10. AllReady(language, frames, stack) /\ Placed(stack)
  <2>1. Len(frames) = 1 /\ frames[1] = f /\ Len(stack) = 0
    BY <1>1
  <2>. QED BY <1>9, <2>1 DEF AllReady, Placed
<1>11. TodoSeqs(frames)
  <2>1. Len(frames) = 1 /\ frames[1] = f /\ f.todo = <<i>>
    BY <1>1, <1>2
  <2>2. <<i>> \in Seq({i})
    OBVIOUS
  <2>3. IsSeq(<<i>>)
    BY <2>2, OwnRange
  <2>. QED BY <2>1, <2>3 DEF TodoSeqs
<1>12. NothingIsDropped
  BY <1>1 DEF NothingIsDropped, NotAdded
<1>13. InContext
  BY <1>1, <1>7, <1>10, <1>12 DEF InContext
<1>. QED BY <1>11, <1>13, InitHolds DEF CInv

(* A step keeps the invariant if it keeps these.                            *)
LEMMA ContextKept ==
  ASSUME language \in Langs, language' = language, errors' \in 0..MaxErrors,
         Placed(stack'), AllReady(language, frames', stack'),
         TodoSeqs(frames'),
         result' \in {"null", "Value", "other"},
         outcome' \in {"parsing", "done", "thrown", "crashed"},
         AddsWell(added')
  PROVE  InContext' /\ TodoSeqs(frames')
<1>1. NothingIsDropped'
  BY DEF NothingIsDropped, AddsWell
<1>2. AllReady(language', frames', stack')
  OBVIOUS
<1>3. (Placed(stack))' /\ (AllReady(language, frames, stack))'
  BY <1>2 DEF Placed, AllReady, Ready, Waits, Opens, ClassAt, Fits, Takes
<1>. QED BY <1>1, <1>3 DEF InContext

(* A frontend that fails, at what it may fail at.                           *)
LEMMA FailContext ==
  ASSUME CInv, errors' \in 0..MaxErrors, NEW how \in {"thrown", "crashed"},
         NEW a, AddsWell(a), Fail(how, a)
  PROVE  InContext' /\ TodoSeqs(frames')
<1>1. /\ language' = language /\ frames' = frames /\ stack' = stack
      /\ result' = result /\ outcome' = how /\ added' = a
  BY DEF Fail
<1>2. /\ Placed(stack') /\ AllReady(language, frames', stack')
      /\ TodoSeqs(frames') /\ language \in Langs
      /\ result' \in {"null", "Value", "other"}
      /\ outcome' \in {"parsing", "done", "thrown", "crashed"}
  BY <1>1 DEF CInv, InContext
<1>. QED BY <1>1, <1>2, ContextKept

(* The item that is next, where its visit finds the stack.                  *)
LEMMA NextItem ==
  ASSUME CInv, Top.todo # <<>>
  PROVE  LET item == Head(Top.todo)
         IN  /\ Waits(language, item, Back.class)
             /\ item.depth \in Nat
             /\ ClassAt(stack, Len(stack)) = Back.class
             /\ Len(stack) \in Nat
             /\ AllReady(language, Popped, stack) /\ TodoSeqs(Popped)
<1>. DEFINE n == Len(frames)
            item == Head(Top.todo)
            x == Tail(Top.todo)
<1>1. n \in Nat /\ n \in 1..n /\ Top = frames[n]
  BY SeqFacts DEF CInv, IInv, Frames, Top
<1>2. IsSeq(Top.todo)
  BY <1>1 DEF CInv, TodoSeqs
<1>3. /\ IsSeq(x) /\ Len(Top.todo) \in Nat /\ 1 \in 1..Len(Top.todo)
      /\ item = Top.todo[1]
      /\ \A j \in 1..Len(x) : \E k \in 1..Len(Top.todo) : x[j] = Top.todo[k]
  BY <1>2, TailFacts
<1>4. Len(stack) \in Nat /\ Len(stack) = Top.height + Opens(Top)
  <2>1. Len(stack) \in Nat
    BY SeqFacts DEF CInv, IInv, Objects
  <2>. QED BY <2>1, <1>1 DEF CInv, IInv, Chain
<1>5. ClassAt(stack, Len(stack)) = Back.class
  <2>1. stack = <<>> <=> Len(stack) = 0
    <3>1. stack \in Seq({stack[i] : i \in DOMAIN stack})
      BY DEF CInv, IInv, Objects, IsSeq
    <3>. QED BY <3>1
  <2>2. V!Nothing.class = "none"
    BY DEF V!Nothing, V!Object
  <2>. QED BY <2>1, <2>2 DEF ClassAt, Back
<1>6. Ready(language, Top, stack)
  BY <1>1 DEF CInv, InContext, AllReady
<1>7. Waits(language, item, Back.class)
  BY <1>3, <1>4, <1>5, <1>6 DEF Ready
<1>8. item.depth \in Nat
  <2>1. item.depth \in 0..MaxDepth
    BY <1>7 DEF Waits
  <2>. QED BY <2>1
<1>. HIDE DEF x
<1>9. Popped = [frames EXCEPT ![Len(frames)].todo = x]
  BY DEF Popped, x
<1>10. AllReady(language, Popped, stack) /\ TodoSeqs(Popped)
  <2>1. /\ Frames(frames) /\ TodoSeqs(frames)
        /\ AllReady(language, frames, stack)
    BY DEF CInv, IInv, InContext
  <2>2. \A j \in 1..Len(x) : \E k \in 1..Len(frames[Len(frames)].todo) :
           x[j] = frames[Len(frames)].todo[k]
    BY <1>1, <1>3
  <2>. HIDE DEF Popped
  <2>. QED BY <1>3, <1>9, <2>1, <2>2, PoppedReady
<1>. QED BY <1>4, <1>5, <1>7, <1>8, <1>10

LEMMA ReadingContext ==
  ASSUME CInv, outcome = "parsing", Top.todo # <<>>,
         errors' \in 0..MaxErrors, NEW w, Reading(w)
  PROVE  InContext' /\ TodoSeqs(frames')
<1>. DEFINE how == Failure(Head(Top.todo).lacking)
<1>1. \/ /\ frames' = Popped /\ stack' = stack /\ outcome' = outcome
         /\ language' = language /\ result' = result /\ added' = NotAdded
      \/ Fail(how, NotAdded)
  BY DEF Reading
<1>2. how \in {"thrown", "crashed"}
  BY DEF Failure
<1>. HIDE DEF how
<1>3. CASE Fail(how, NotAdded)
  BY <1>2, <1>3, NotAddedFits, FailContext
<1>4. CASE /\ frames' = Popped /\ stack' = stack /\ outcome' = outcome
           /\ language' = language /\ result' = result /\ added' = NotAdded
  <2>1. AllReady(language, Popped, stack) /\ TodoSeqs(Popped)
    BY NextItem
  <2>2. /\ Placed(stack') /\ language \in Langs
        /\ result' \in {"null", "Value", "other"}
    BY <1>4 DEF CInv, InContext
  <2>3. AddsWell(added')
    BY <1>4, NotAddedFits
  <2>4. outcome' \in {"parsing", "done", "thrown", "crashed"}
    BY <1>4
  <2>5. AllReady(language, frames', stack') /\ TodoSeqs(frames')
    BY <1>4, <2>1
  <2>. QED BY <1>4, <2>2, <2>3, <2>4, <2>5, ContextKept
<1>. QED BY <1>1, <1>3, <1>4
-----------------------------------------------------------------------------
(* The class on top after a push, or without one.                           *)
LEMMA SameClasses ==
  ASSUME NEW s, NEW t, NEW n \in Nat, \A i \in 1..n : t[i].class = s[i].class
  PROVE  ClassAt(t, n) = ClassAt(s, n)
<1>1. n # 0 => n \in 1..n
  OBVIOUS
<1>. QED BY <1>1 DEF ClassAt

LEMMA OneMore ==
  ASSUME NEW n \in Nat, NEW f, NEW t
  PROVE  /\ f.opens = "none" => ClassAt(t, n + Opens(f)) = ClassAt(t, n)
         /\ f.opens # "none" => ClassAt(t, n + Opens(f)) = t[n + 1].class
<1>1. n + 0 = n /\ n + 1 # 0
  OBVIOUS
<1>. QED BY <1>1 DEF Opens, ClassAt

(* A frame is ready if what it holds suits the class that is on top then.   *)
LEMMA ReadyWith ==
  ASSUME NEW l, NEW f, NEW t, NEW n \in Nat, f.height = n,
         f.opens \in Classes, f.returns \in Ways,
         NEW c, ClassAt(t, n) = c,
         f.after # "none" => Takes(l, c, f.after),
         f.opens # "none" => t[n + 1].class = f.opens,
         \A j \in 1..Len(f.todo) :
           Waits(l, f.todo[j], IF f.opens = "none" THEN c ELSE f.opens)
  PROVE  Ready(l, f, t)
<1>1. ClassAt(t, n + Opens(f)) = IF f.opens = "none" THEN c ELSE f.opens
  BY OneMore
<1>. QED BY <1>1 DEF Ready

(* The frame of a visit that has begun is ready.                            *)
LEMMA NewFrameReady ==
  ASSUME NEW l, NEW c, NEW p, PlanFits(l, p, c), p.fault = "",
         NEW s, Len(s) \in Nat, ClassAt(s, Len(s)) = c,
         NEW todo, NEW text, NEW returns \in Ways,
         NEW o, o = IF p.opens.class = "none" THEN c ELSE p.opens.class,
         \A j \in 1..Len(todo) : Waits(l, todo[j], o),
         NEW t, \A i \in 1..Len(s) : t[i].class = s[i].class,
         p.opens.class # "none" => t[Len(s) + 1].class = p.opens.class
  PROVE  Ready(l, Frame(Len(s), p.opens.class, todo, text, returns, p), t)
<1>. DEFINE f == Frame(Len(s), p.opens.class, todo, text, returns, p)
            n == Len(s)
<1>1. /\ f.height = n /\ f.opens = p.opens.class /\ f.todo = todo
      /\ f.returns = returns /\ f.after = p.after
  BY DEF Frame
<1>2. p.opens.class \in Classes /\ (p.after # "none" => Takes(l, c, p.after))
  BY DEF PlanFits
<1>. HIDE DEF f
<1>3. ClassAt(t, n) = c
  BY SameClasses
<1>4. \A j \in 1..Len(f.todo) :
        Waits(l, f.todo[j], IF f.opens = "none" THEN c ELSE f.opens)
  BY <1>1
<1>5. n \in Nat /\ (f.opens # "none" => t[n + 1].class = f.opens)
  BY <1>1
<1>6. /\ f.opens \in Classes /\ f.returns \in Ways
      /\ f.after # "none" => Takes(l, c, f.after)
  BY <1>1, <1>2
<1>. HIDE DEF n
<1>7. Ready(l, f, t)
  BY <1>1, <1>3, <1>4, <1>5, <1>6, ReadyWith
<1>. QED BY <1>7 DEF f, n

LEMMA AppendedReady ==
  ASSUME NEW l, NEW fs, IsSeq(fs), NEW s, AllReady(l, fs, s), TodoSeqs(fs),
         NEW f, Ready(l, f, s), IsSeq(f.todo)
  PROVE  AllReady(l, Append(fs, f), s) /\ TodoSeqs(Append(fs, f))
<1>. DEFINE gs == Append(fs, f)
<1>1. /\ Len(gs) = Len(fs) + 1 /\ Len(fs) \in Nat
      /\ \A i \in 1..Len(fs) : gs[i] = fs[i]
      /\ gs[Len(fs) + 1] = f
  BY AppendFacts, SeqFacts
<1>. HIDE DEF gs
<1>2. \A i \in 1..Len(gs) : gs[i] = f \/ \E k \in 1..Len(fs) : gs[i] = fs[k]
  BY <1>1
<1>3. AllReady(l, gs, s)
  BY <1>2 DEF AllReady
<1>4. TodoSeqs(gs)
  BY <1>2 DEF TodoSeqs
<1>. QED BY <1>3, <1>4 DEF gs

LEMMA TopOfStack ==
  ASSUME NEW s, Objects(s)
  PROVE  /\ s = <<>> => V!Nothing.free \in PlacesLeft
         /\ V!Nothing.free = <<>>
         /\ s # <<>> => Len(s) \in 1..Len(s)
<1>1. V!Nothing.free = <<>> /\ <<>> \in PlacesLeft
  BY DEF V!Nothing, V!Object, PlacesLeft
<1>2. s \in Seq({s[i] : i \in DOMAIN s})
  BY DEF Objects, IsSeq
<1>3. s # <<>> => Len(s) \in 1..Len(s)
  BY <1>2
<1>. QED BY <1>1, <1>3

(* A visit begins: what it adds can be added, and what it will visit can be *)
(* visited with what it has opened, or with what was on top.                *)
LEMMA VisitingContext ==
  ASSUME CInv, outcome = "parsing", Top.todo # <<>>,
         errors' \in 0..MaxErrors, NEW w, NEW long,
         Head(Top.todo).how # "read", Head(Top.todo).rule # "null",
         Suits(language, Head(Top.todo).rule, w), Visiting(w, long)
  PROVE  InContext' /\ TodoSeqs(frames')
<1>. DEFINE item == Head(Top.todo)
<1>0. PICK p \in Plans(item, w) : Following(item, p, Relevant(item, p), w, long)
  BY DEF Visiting
<1>. DEFINE text == Top.text \/ item.text
            todo == Relevant(item, p)
            opens == p.opens.class
            c == IF opens # "none" /\ p.attached THEN opens ELSE p.adds
            a == IF c = "none" THEN NotAdded ELSE AddToParent(c)
            named == Assigned(AddedTo(stack, a.how), p.sets)
            back == Back.class
            returns == Awaited(Returning(p, w, todo))
            f == Frame(Len(stack), opens, todo, text, returns, p)
            o == V!Object(opens, p.opens.free)
            d == IF opens = "none" THEN back ELSE opens
<1>1. \/ \E x : Fail(Failure(x), NotAdded)
      \/ p.needs # {} /\ back \notin p.needs
      \/ p.fault = "" /\ a.how \in Failures /\ Fail(a.how, a)
      \/ /\ p.fault = ""
         /\ frames' = Append(Popped, f)
         /\ stack' = IF opens = "none" THEN named ELSE Append(named, o)
         /\ outcome' = outcome /\ language' = language /\ added' = a
         /\ result' = "null"
         /\ \A i \in DOMAIN todo : todo[i].depth <= MaxDepth
  <2>1. Following(item, p, todo, w, long)
    BY <1>0
  <2>. QED BY <2>1, Zenon DEF Following
<1>2. /\ Waits(language, item, back) /\ item.depth \in Nat
      /\ ClassAt(stack, Len(stack)) = back /\ Len(stack) \in Nat
      /\ AllReady(language, Popped, stack) /\ TodoSeqs(Popped)
  BY NextItem
<1>3. language \in Langs /\ Placed(stack) /\ Objects(stack)
  BY DEF CInv, InContext, IInv
<1>4. PlanFits(language, p, back)
  BY <1>0, <1>2, <1>3, PlansFit
<1>5. CASE \E x : Fail(Failure(x), NotAdded)
  <2>1. \A x : Failure(x) \in {"thrown", "crashed"}
    BY DEF Failure
  <2>. QED BY <1>5, <2>1, NotAddedFits, FailContext
<1>6. ~(p.needs # {} /\ back \notin p.needs)
  BY <1>4 DEF PlanFits
<1>7. p.fault = "" => /\ AddsWell(a)
                      /\ a.how \in PlaceNames =>
                           stack # <<>> /\ stack[Len(stack)].free # <<>>
  <2>. SUFFICES ASSUME p.fault = ""
                PROVE  /\ AddsWell(a)
                       /\ a.how \in PlaceNames =>
                            stack # <<>> /\ stack[Len(stack)].free # <<>>
    OBVIOUS
  <2>1. CASE c = "none"
    <3>1. a = NotAdded
      BY <2>1
    <3>. HIDE DEF a
    <3>. QED BY <3>1, NotAddedFits
  <2>2. CASE c # "none"
    <3>1. Takes(language, Back.class, c)
      BY <2>2, <1>4 DEF PlanFits
    <3>2. a = [to |-> Back.class, what |-> c, how |-> Reception(Back, c)]
      BY <2>2 DEF AddToParent
    <3>3. /\ Back.free \in PlacesLeft
          /\ Back.free # <<>> =>
               stack # <<>> /\ stack[Len(stack)].free # <<>>
      <4>1. CASE stack = <<>>
        BY <4>1, <1>3, TopOfStack DEF Back
      <4>2. CASE stack # <<>>
        <5>1. Len(stack) \in 1..Len(stack)
          BY <4>2, <1>3, TopOfStack
        <5>. QED BY <4>2, <5>1, <1>3 DEF Back, Placed
      <4>. QED BY <4>1, <4>2
    <3>. HIDE DEF a, c
    <3>. QED BY <3>1, <3>2, <3>3, <1>3, ReceptionFits
  <2>. QED BY <2>1, <2>2
<1>8. CASE p.fault = "" /\ a.how \in Failures /\ Fail(a.how, a)
  <2>1. AddsWell(a)
    BY <1>7, <1>8
  <2>. HIDE DEF a
  <2>2. a.how = "thrown"
    BY <1>8, <2>1 DEF Failures, AddsWell
  <2>. QED BY <1>8, <2>1, <2>2, FailContext
<1>9. CASE /\ p.fault = ""
           /\ frames' = Append(Popped, f)
           /\ stack' = IF opens = "none" THEN named ELSE Append(named, o)
           /\ outcome' = outcome /\ language' = language /\ added' = a
           /\ result' = "null"
           /\ \A i \in DOMAIN todo : todo[i].depth <= MaxDepth
  <2>0. p.opens.class \in Classes /\ p.opens.free \in PlacesLeft
        /\ p.returns \in Ways
    BY <1>4, <1>9 DEF PlanFits
  <2>1. Items(language, d, p.visits)
    BY <1>4, <1>9 DEF PlanFits
  <2>2. IsSeq(todo) /\ \A j \in 1..Len(todo) : Waits(language, todo[j], d)
    <3>. HIDE DEF item, d
    <3>1. \E t : t = todo
      OBVIOUS
    <3>2. \A i \in DOMAIN todo : todo[i].depth <= MaxDepth
      BY <1>9
    <3>. QED BY <3>2, <2>1, <1>2, RelevantWait
  <2>3. returns \in Ways
    BY <2>0 DEF Awaited, Returning, Ways
  <2>4. f.todo = todo /\ f.opens = opens
    BY DEF Frame
  <2>5. o.class = opens /\ o.free = p.opens.free
    BY DEF V!Object
  <2>6. /\ TopOnly(stack, AddedTo(stack, a.how))
        /\ Placed(AddedTo(stack, a.how))
    <3>1. stack = <<>> =>
            a.how \notin {"first", "second", "value", "left", "right"}
      BY <1>7, <1>9 DEF PlaceNames
    <3>. HIDE DEF a
    <3>2. TopOnly(stack, AddedTo(stack, a.how))
      BY <3>1, <1>3, AddingFacts
    <3>3. Placed(AddedTo(stack, a.how))
      BY <1>3, <1>7, <1>9, AddedPlaced
    <3>. QED BY <3>2, <3>3
  <2>. HIDE DEF a
  <2>7. TopOnly(stack, named) /\ Placed(named)
    <3>1. TopOnly(AddedTo(stack, a.how), named)
      BY <2>6, AssigningFacts DEF TopOnly
    <3>2. Placed(named)
      BY <2>6, AssignedPlaced DEF TopOnly
    <3>. QED BY <2>6, <3>1, <3>2 DEF TopOnly
  <2>. HIDE DEF named, opens, o, f, todo
  <2>8. /\ IsSeq(named) /\ Len(named) = Len(stack)
        /\ \A i \in 1..Len(stack) : named[i].class = stack[i].class
    BY <2>7 DEF TopOnly, Objects
  <2>9. /\ Placed(stack')
        /\ \A i \in 1..Len(stack) : stack'[i].class = stack[i].class
        /\ opens # "none" => stack'[Len(stack) + 1].class = opens
    <3>1. CASE opens = "none"
      BY <3>1, <1>9, <2>7, <2>8
    <3>2. CASE opens # "none"
      <4>1. stack' = Append(named, o)
        BY <3>2, <1>9
      <4>2. /\ Len(stack') = Len(named) + 1
            /\ \A i \in 1..Len(named) : stack'[i] = named[i]
            /\ stack'[Len(named) + 1] = o
        BY <4>1, <2>8, AppendFacts
      <4>3. \A i \in 1..Len(stack') : stack'[i] = o
                                      \/ i \in 1..Len(named)
        BY <4>2, <2>8, <1>2
      <4>4. o.class \in Classes /\ o.free \in PlacesLeft
        BY <2>0, <2>5 DEF opens
      <4>5. Placed(stack')
        BY <4>2, <4>3, <4>4, <2>7 DEF Placed
      <4>. QED BY <4>2, <4>5, <2>5, <2>8
    <3>. QED BY <3>1, <3>2
  <2>10. AllReady(language, Popped, stack')
    <3>1. /\ Frames(Popped) /\ Len(Popped) = Len(frames)
          /\ \A i \in 1..Len(frames) : /\ Popped[i].height = frames[i].height
                                       /\ Popped[i].opens = frames[i].opens
      <4>1. Frames(frames)
        BY DEF CInv, IInv
      <4>. QED BY <4>1, PoppedFacts, Zenon DEF Popped
    <3>2. Chain(Popped, stack)
      BY <3>1, ChainKept, Keeping DEF CInv, IInv
    <3>. HIDE DEF Popped
    <3>. QED BY <3>1, <3>2, <1>2, <1>3, <2>9, AllReadyKept
  <2>11. Ready(language, f, stack')
    <3>1. p.opens.class # "none" =>
            stack'[Len(stack) + 1].class = p.opens.class
      BY <2>9 DEF opens
    <3>2. \A i \in 1..Len(stack) : stack'[i].class = stack[i].class
      BY <2>9
    <3>3. d = IF p.opens.class = "none" THEN back ELSE p.opens.class
      BY DEF opens
    <3>. HIDE DEF d, back, returns, text
    <3>4. Ready(language, Frame(Len(stack), p.opens.class, todo, text,
                                returns, p), stack')
      BY <3>1, <3>2, <3>3, <1>2, <1>4, <1>9, <2>2, <2>3, NewFrameReady
    <3>. QED BY <3>4 DEF f, opens
  <2>12. IsSeq(Popped) /\ IsSeq(f.todo)
    <3>1. Frames(Popped)
      <4>1. Frames(frames)
        BY DEF CInv, IInv
      <4>. QED BY <4>1, PoppedFacts, Zenon DEF Popped
    <3>. QED BY <3>1, <2>2, <2>4 DEF Frames
  <2>13. AllReady(language, frames', stack') /\ TodoSeqs(frames')
    <3>. HIDE DEF Popped
    <3>1. AllReady(language, Append(Popped, f), stack')
          /\ TodoSeqs(Append(Popped, f))
      BY <2>10, <2>11, <2>12, <1>2, AppendedReady
    <3>. QED BY <3>1, <1>9
  <2>14. AddsWell(added') /\ outcome' \in {"parsing", "done", "thrown", "crashed"}
         /\ result' \in {"null", "Value", "other"}
    BY <1>7, <1>9
  <2>15. language' = language
    BY <1>9
  <2>. QED BY <1>3, <2>9, <2>13, <2>14, <2>15, ContextKept
<1>. QED BY <1>1, <1>5, <1>6, <1>8, <1>9
-----------------------------------------------------------------------------
LEMMA HandleContext ==
  ASSUME CInv, outcome = "parsing", Top.todo # <<>>,
         errors' \in 0..MaxErrors, NEW w, NEW long,
         Head(Top.todo).rule # "null",
         Head(Top.todo).how # "read" =>
           Suits(language, Head(Top.todo).rule, w),
         Handle(w, long)
  PROVE  InContext' /\ TodoSeqs(frames')
<1>1. CASE Head(Top.todo).how = "read"
  BY <1>1, ReadingContext DEF Handle
<1>2. CASE Head(Top.todo).how # "read"
  BY <1>2, VisitingContext DEF Handle
<1>. QED BY <1>1, <1>2

(* What is next is a rule of the grammar, if it is visited.                 *)
LEMMA NextIsRule ==
  ASSUME CInv, Top.todo # <<>>, Head(Top.todo).rule # "null",
         Head(Top.todo).how # "read"
  PROVE  IsRule(language, Head(Top.todo).rule)
<1>1. Waits(language, Head(Top.todo), Back.class)
  BY NextItem
<1>. QED BY <1>1 DEF Waits

LEMMA EnterContext ==
  ASSUME CInv, Enter
  PROVE  InContext' /\ TodoSeqs(frames')
<1>1. PICK w \in Words(language, Head(Top.todo).rule) :
        Handle(w, IsLong(w))
  BY DEF Enter
<1>2. /\ outcome = "parsing" /\ Top.todo # <<>>
      /\ Head(Top.todo).rule # "null" /\ errors' = errors
  BY DEF Enter
<1>3. errors' \in 0..MaxErrors
  BY <1>2 DEF CInv, InContext
<1>4. Head(Top.todo).how # "read" => Suits(language, Head(Top.todo).rule, w)
  BY <1>2, NextIsRule, WordsSuit
<1>. QED BY <1>1, <1>2, <1>3, <1>4, HandleContext

LEMMA EnterAfterErrorContext ==
  ASSUME CInv, EnterAfterError
  PROVE  InContext' /\ TodoSeqs(frames')
<1>1. PICK w \in Cuts(language, Head(Top.todo).rule) :
        \E s \in Skipped : Handle(w \o s, FALSE)
  BY DEF EnterAfterError
<1>2. PICK s \in Skipped : Handle(w \o s, FALSE)
  BY <1>1
<1>3. /\ outcome = "parsing" /\ Top.todo # <<>>
      /\ Head(Top.todo).rule # "null"
      /\ errors < MaxErrors /\ errors' = errors + 1
  BY DEF EnterAfterError
<1>4. errors' \in 0..MaxErrors
  <2>1. errors \in 0..MaxErrors /\ MaxErrors \in Nat
    BY FrontendAssumption DEF CInv, InContext
  <2>. QED BY <1>3, <2>1
<1>5. Head(Top.todo).how # "read" =>
        Suits(language, Head(Top.todo).rule, w \o s)
  BY <1>3, NextIsRule, CutsSuit
<1>. QED BY <1>2, <1>3, <1>4, <1>5, HandleContext

LEMMA FollowNullContext ==
  ASSUME CInv, FollowNull
  PROVE  InContext' /\ TodoSeqs(frames')
<1>1. Fail("crashed", NotAdded) /\ errors' = errors
  BY DEF FollowNull
<1>2. errors' \in 0..MaxErrors
  BY <1>1 DEF CInv, InContext
<1>. QED BY <1>1, <1>2, NotAddedFits, FailContext

(* A visit returns: what its list of values is added to can take it, and    *)
(* what waits below finds the stack as it was.                              *)
LEMMA LeaveContext ==
  ASSUME CInv, Leave
  PROVE  InContext' /\ TodoSeqs(frames')
<1>. DEFINE below == Pop
            n == Len(frames)
            parent == IF below = <<>> THEN V!Nothing ELSE below[Len(below)]
            a == IF Top.after = "none" THEN NotAdded
                 ELSE [to |-> parent.class, what |-> Top.after,
                       how |-> Reception(parent, Top.after)]
            r == IF Top.returns \in {"children", "last"} THEN result
                 ELSE Top.returns
<1>1. /\ outcome = "parsing" /\ n > 1
      /\ language' = language /\ errors' = errors
      /\ added' = a
      /\ outcome' = CASE a.how \in Failures -> a.how
                      [] Top.casts /\ result # "Value" -> "thrown"
                      [] OTHER -> outcome
      /\ frames' = SubSeq(frames, 1, n - 1)
      /\ stack' = AddedTo(below, a.how)
      /\ result' = Awaited(r)
  BY Zenon DEF Leave
<1>2. /\ Frames(frames) /\ Objects(stack) /\ Chain(frames, stack)
      /\ Placed(stack) /\ AllReady(language, frames, stack)
      /\ TodoSeqs(frames) /\ language \in Langs
      /\ result \in {"null", "Value", "other"} /\ errors \in 0..MaxErrors
  BY DEF CInv, IInv, InContext
<1>3. n \in Nat /\ n \in 1..n /\ Top = frames[n] /\ IsSeq(frames)
  BY <1>2, SeqFacts DEF Frames, Top
<1>4. /\ Objects(below) /\ Frames(frames') /\ Chain(frames', below)
      /\ Len(below) \in Nat /\ Len(below) = Top.height
      /\ Len(below) <= Len(stack) /\ Len(stack) \in Nat
      /\ \A i \in 1..Len(below) : below[i] = stack[i]
  <2>. DEFINE k == Len(stack) - Opens(frames[n])
  <2>1. /\ k \in 0..Len(stack) /\ Frames(frames') /\ Objects(below)
        /\ Chain(frames', below) /\ below = SubSeq(stack, 1, k)
    BY <1>1, <1>2, ChainShortened DEF Pop, Top
  <2>2. IsSeq(stack) /\ Len(stack) \in Nat
    BY <1>2, SeqFacts DEF Objects
  <2>3. k = Top.height
    <3>1. frames[n].height \in Nat /\ Opens(frames[n]) \in 0..1
      BY <1>2, <1>3, OpensFacts DEF Frames
    <3>2. Len(stack) = frames[n].height + Opens(frames[n])
      BY <1>2 DEF Chain
    <3>. QED BY <3>1, <3>2, <1>3
  <2>. HIDE DEF k, below
  <2>4. Len(below) = k /\ \A i \in 1..k : below[i] = stack[i]
    BY <2>1, <2>2, FrontFacts
  <2>. QED BY <2>1, <2>2, <2>3, <2>4
<1>5. Ready(language, Top, stack)
  BY <1>2, <1>3 DEF AllReady
<1>. HIDE DEF below
<1>6. Placed(below)
  BY <1>2, <1>4 DEF Placed
<1>7. parent.class = ClassAt(stack, Top.height)
  <2>1. below = <<>> <=> Len(below) = 0
    <3>1. below \in Seq({below[i] : i \in DOMAIN below})
      BY <1>4 DEF Objects, IsSeq
    <3>. QED BY <3>1
  <2>2. V!Nothing.class = "none"
    BY DEF V!Nothing, V!Object
  <2>3. below # <<>> => Len(below) \in 1..Len(below)
    BY <1>4, TopOfStack
  <2>. QED BY <1>4, <2>1, <2>2, <2>3 DEF ClassAt
<1>8. /\ parent.free \in PlacesLeft
      /\ parent.free # <<>> =>
           below # <<>> /\ below[Len(below)].free # <<>>
  <2>1. CASE below = <<>>
    BY <2>1, <1>4, TopOfStack
  <2>2. CASE below # <<>>
    <3>1. Len(below) \in 1..Len(below)
      BY <2>2, <1>4, TopOfStack
    <3>. QED BY <2>2, <3>1, <1>6 DEF Placed
  <2>. QED BY <2>1, <2>2
<1>. HIDE DEF parent
<1>9. /\ AddsWell(a)
      /\ a.how \in PlaceNames =>
           below # <<>> /\ below[Len(below)].free # <<>>
  <2>1. CASE Top.after = "none"
    <3>1. a = NotAdded
      BY <2>1
    <3>. HIDE DEF a
    <3>. QED BY <3>1, NotAddedFits
  <2>2. CASE Top.after # "none"
    <3>1. Takes(language, parent.class, Top.after)
      BY <2>2, <1>5, <1>7 DEF Ready
    <3>2. a = [to |-> parent.class, what |-> Top.after,
               how |-> Reception(parent, Top.after)]
      BY <2>2
    <3>. HIDE DEF a
    <3>. QED BY <3>1, <3>2, <1>2, <1>8, ReceptionFits
  <2>. QED BY <2>1, <2>2
<1>. HIDE DEF a
<1>10. Placed(stack')
  BY <1>1, <1>4, <1>6, <1>9, AddedPlaced
<1>11. TopOnly(below, stack')
  <2>1. below = <<>> =>
          a.how \notin {"first", "second", "value", "left", "right"}
    BY <1>9 DEF PlaceNames
  <2>. QED BY <1>1, <1>4, <2>1, AddingFacts
<1>12. /\ Len(frames') = n - 1
       /\ \A i \in 1..(n - 1) : frames'[i] = frames[i] /\ i \in 1..n
  <2>1. n - 1 \in 0..n
    BY <1>3, <1>1
  <2>. QED BY <2>1, <1>1, <1>3, FrontFacts
<1>13. AllReady(language, frames', stack) /\ TodoSeqs(frames')
  BY <1>2, <1>12 DEF AllReady, TodoSeqs
<1>14. AllReady(language, frames', stack')
  <2>1. \A i \in 1..Len(below) : stack'[i].class = stack[i].class
    BY <1>4, <1>11 DEF TopOnly
  <2>. QED BY <2>1, <1>4, <1>13, AllReadyKept
<1>15. result' \in {"null", "Value", "other"}
  <2>1. Top.returns \in Ways
    BY <1>5 DEF Ready
  <2>2. r \in {"null", "Value", "other"}
    BY <2>1, <1>2 DEF Ways
  <2>. HIDE DEF r
  <2>. QED BY <1>1, <2>2 DEF Awaited
<1>16. outcome' \in {"parsing", "done", "thrown", "crashed"}
  <2>1. a.how \in Failures => a.how = "thrown"
    BY <1>9 DEF AddsWell, Failures
  <2>. QED BY <1>1, <2>1
<1>17. AddsWell(added')
  BY <1>1, <1>9
<1>18. errors' \in 0..MaxErrors
  BY <1>1, <1>2
<1>. QED BY <1>1, <1>2, <1>10, <1>13, <1>14, <1>15, <1>16, <1>17, <1>18,
            ContextKept

LEMMA FinishContext ==
  ASSUME CInv, Finish
  PROVE  InContext' /\ TodoSeqs(frames')
<1>1. /\ outcome' = "done" /\ added' = NotAdded
      /\ language' = language /\ frames' = frames /\ stack' = stack
      /\ result' = result /\ errors' = errors
  BY DEF Finish
<1>2. /\ Placed(stack') /\ AllReady(language, frames', stack')
      /\ TodoSeqs(frames') /\ language \in Langs
      /\ result' \in {"null", "Value", "other"} /\ errors' \in 0..MaxErrors
  BY <1>1 DEF CInv, InContext
<1>3. AddsWell(added')
  BY <1>1, NotAddedFits
<1>. QED BY <1>1, <1>2, <1>3, ContextKept

LEMMA StillContext ==
  ASSUME CInv, UNCHANGED vars
  PROVE  InContext' /\ TodoSeqs(frames')
<1>1. /\ language' = language /\ frames' = frames /\ stack' = stack
      /\ outcome' = outcome /\ result' = result /\ errors' = errors
      /\ added' = added
  BY DEF vars
<1>2. /\ Placed(stack') /\ AllReady(language, frames', stack')
      /\ TodoSeqs(frames') /\ language \in Langs
      /\ result' \in {"null", "Value", "other"} /\ errors' \in 0..MaxErrors
      /\ outcome' \in {"parsing", "done", "thrown", "crashed"}
  BY <1>1 DEF CInv, InContext
<1>3. NothingIsDropped'
  BY <1>1 DEF CInv, InContext, NothingIsDropped
<1>4. AllReady(language', frames', stack')
  BY <1>1, <1>2
<1>5. (Placed(stack))' /\ (AllReady(language, frames, stack))'
  BY <1>2, <1>4
     DEF Placed, AllReady, Ready, Waits, Opens, ClassAt, Fits, Takes
<1>6. language' \in Langs /\ TodoSeqs(frames')
  BY <1>1, <1>2
<1>. QED BY <1>2, <1>3, <1>5, <1>6 DEF InContext

LEMMA ContextStep == CInv /\ [Next]_vars => CInv'
<1>. SUFFICES ASSUME CInv, [Next]_vars PROVE CInv'
  OBVIOUS
<1>1. IInv'
  BY Step DEF CInv
<1>2. InContext' /\ TodoSeqs(frames')
  <2>1. CASE Enter
    BY <2>1, EnterContext
  <2>2. CASE EnterAfterError
    BY <2>2, EnterAfterErrorContext
  <2>3. CASE FollowNull
    BY <2>3, FollowNullContext
  <2>4. CASE Leave
    BY <2>4, LeaveContext
  <2>5. CASE Finish
    BY <2>5, FinishContext
  <2>6. CASE UNCHANGED vars
    BY <2>6, StillContext
  <2>7. CASE Ended
    BY <2>6, <2>7 DEF Ended
  <2>. QED BY <2>1, <2>2, <2>3, <2>4, <2>5, <2>6, <2>7 DEF Next
<1>3. (TodoSeqs(frames))'
  BY <1>2 DEF TodoSeqs, IsSeq
<1>. QED BY <1>1, <1>2, <1>3 DEF CInv

(* Whatever is visited, and whatever is added to the tree, is where the     *)
(* grammar and the visitors can have brought it: the object on top of the   *)
(* stack is always one that the visit, or the object, can have there.       *)
THEOREM ContextInvariance == Spec => []CInv
<1>. QED BY StartsInContext, ContextStep, PTL DEF Spec

(* A frontend keeps to the classes of the tree and to the outcomes that the *)
(* sources know, and to the bounds, however large the netlist is.           *)
THEOREM TypesAreKept == Spec => []TypeOK
<1>1. CInv => TypeOK
  <2>. SUFFICES ASSUME CInv PROVE TypeOK
    OBVIOUS
  <2>0. /\ Frames(frames) /\ Objects(stack) /\ TodoSeqs(frames)
        /\ Placed(stack) /\ AllReady(language, frames, stack)
    BY DEF CInv, IInv, InContext
  <2>1. \A i \in DOMAIN stack :
          stack[i].class \in Classes /\ stack[i].free \in PlacesLeft
    <3>1. DOMAIN stack = 1..Len(stack)
      BY <2>0, SeqFacts DEF Objects
    <3>. QED BY <3>1, <2>0 DEF Placed
  <2>2. \A i \in DOMAIN frames :
          /\ frames[i].opens \in Classes
          /\ \A j \in DOMAIN frames[i].todo :
                frames[i].todo[j].depth \in 0..MaxDepth
    <3>. SUFFICES ASSUME NEW i \in DOMAIN frames
                  PROVE  /\ frames[i].opens \in Classes
                         /\ \A j \in DOMAIN frames[i].todo :
                               frames[i].todo[j].depth \in 0..MaxDepth
      OBVIOUS
    <3>1. i \in 1..Len(frames)
      BY <2>0, SeqFacts DEF Frames
    <3>2. Ready(language, frames[i], stack)
      BY <3>1, <2>0 DEF AllReady
    <3>3. DOMAIN frames[i].todo = 1..Len(frames[i].todo)
      BY <3>1, <2>0, SeqFacts DEF TodoSeqs
    <3>. QED BY <3>2, <3>3 DEF Ready, Waits
  <2>3. outcome \in Failures \cup {"parsing", "done"}
    BY DEF CInv, InContext, Failures
  <2>4. /\ language \in Langs /\ errors \in 0..MaxErrors
        /\ result \in {"null", "Value", "other"}
    BY DEF CInv, InContext
  <2>. QED BY <2>1, <2>2, <2>3, <2>4 DEF TypeOK
<1>. QED BY <1>1, ContextInvariance, PTL

(* No cast of a visitor ever ends the program, not even on what the parser  *)
(* makes of a file that is wrong.                                           *)
THEOREM CastsNeverFail == Spec => []CastsHold
<1>1. CInv => CastsHold
  BY DEF CInv, InContext, CastsHold
<1>. QED BY <1>1, ContextInvariance, PTL

(* Nothing that a frontend creates is left out of the tree but the parts of *)
(* hierarchical nodes and what stands in a library.                         *)
THEOREM TheTreeTakesAll == Spec => []NothingIsDropped
<1>1. CInv => NothingIsDropped
  BY DEF CInv, InContext
<1>. QED BY <1>1, ContextInvariance, PTL
=============================================================================
