---------------------------- MODULE TimeEventProofs ----------------------------
(***************************************************************************)
(* Proofs about the alarm and cyclic handlers of TimeEvent, for any number *)
(* of handlers, periods and attributes, any word size and any number of    *)
(* ticks that wait to be served.                                           *)
(*                                                                         *)
(* The flags of a block are what every service decides by, so the          *)
(* inductive invariant says what each combination of them means: in which  *)
(* list the block is (Links), which combinations there are (Flags), and    *)
(* what is known about its time (Timing): a block on the timer queue is    *)
(* due when the calls said; one that is waiting for its call is not early; *)
(* and one that was set again meanwhile has the interval kept in ltime.    *)
(***************************************************************************)
EXTENDS TimeEvent, QueueLemmas

Known(x) == x \in created \ {creating}

(* The flags of a block that is on the timer queue. *)
Linked(x) == \/ x \in Alm /\ msts[x] = {"STA"}
             \/ x \in Cyc /\ "PND" \notin msts[x] /\ (PHS(x) \/ "STA" \in msts[x])

Flags ==
    /\ \A c \in Cyc : "RST" \notin msts[c]
    /\ \A a \in Alm : "RST" \in msts[a] => "PND" \in msts[a] /\ "STA" \notin msts[a]
    /\ creating # NONE => creating \in created /\ msts[creating] = {} /\ Oatr[creating] # {}
    /\ cssb \in Alm => "STA" \notin msts[cssb]

Links ==
    /\ Once(timq) /\ OnceIn(ssbq, Object)
    /\ \A x \in Object : x \in ToSet(timq) <=> Known(x) /\ Linked(x)
    /\ \A x \in Object : x \in ToSet(ssbq) \/ x = cssb <=> Known(x) /\ "PND" \in msts[x]
    /\ cssb \notin ToSet(ssbq)

(* What is known of the time of an alarm. *)
AlarmTime(a) ==
    /\ msts[a] = {"STA"} =>
          /\ Value(stime[a]) > Value(systim)
          /\ \/ Value(stime[a]) = due[a]
             \/ a \in deferred /\ Value(stime[a]) > due[a]
    /\ {"STA", "PND"} \subseteq msts[a] => Value(systim) >= due[a]
    /\ "RST" \in msts[a] =>
          /\ a \in deferred /\ stime[a].ltime \in AlmTime
          /\ Value(systim) + stime[a].ltime >= due[a]

Timing ==
    /\ InTime(timq, stime)
    /\ \A c \in Cyc : Known(c) /\ (Linked(c) \/ "PND" \in msts[c]) => Value(stime[c]) = due[c]
    /\ \A a \in Alm : Known(a) => AlarmTime(a)

Wanted == \A a \in want : Known(a) /\ {"STA", "RST"} \cap msts[a] # {}

IInv == TypeOK /\ Flags /\ Links /\ Timing /\ Wanted

-----------------------------------------------------------------------------
LEMMA Constants ==
    /\ Alm \cap Cyc = {} /\ NONE \notin Object /\ TICK \notin Object /\ NONE # TICK
    /\ Alm \subseteq Object /\ Cyc \subseteq Object /\ Object = Alm \cup Cyc
    /\ Oatr \in [Cyc -> SUBSET {"STA", "PHS"}]
    /\ Tick \in UW /\ Tick > 0 /\ Tick \in Nat
    /\ \A c \in Cyc : Cyctim[c] \in UW /\ Cyctim[c] \in Nat
    /\ \A c \in Cyc : Cycphs[c] \in Nat /\ Cycphs[c] + Tick \in UW /\ Cycphs[c] + Tick \in Nat
    /\ \A d \in AlmTime : d \in UW /\ d > 0 /\ d \in Nat
    /\ UW \subseteq Nat
BY TimeEventAssumption, WordFacts DEF Object, UW

(* Connecting x, which is not in q, for d after from. *)
LEMMA ArmFacts ==
    ASSUME NEW q \in Seq(Object), NEW x \in Object, NEW from \in Stamp, NEW d \in UW,
           stime \in [Object -> Stamp],
           Once(q), x \notin ToSet(q), InTime(q, stime), Arm(q, x, from, d)
    PROVE  /\ stime' \in [Object -> Stamp]
           /\ Value(stime'[x]) = Value(from) + d
           /\ \A y \in Object \ {x} : stime'[y] = stime[y]
           /\ timq' \in Seq(Object) /\ Once(timq') /\ ToSet(timq') = ToSet(q) \cup {x}
           /\ InTime(timq', stime')
<1>1. Advance(from, d) \in Stamp /\ Value(Advance(from, d)) = Value(from) + d
      BY AdvanceExact
<1>0. PICK st : st = [stime EXCEPT ![x] = Advance(from, d)] OBVIOUS
<1>2. stime' = st /\ timq' = EnqTim(q, st, x) BY <1>0 DEF Arm
<1>3. st \in [Object -> Stamp] /\ st[x] = Advance(from, d) /\ \A y \in Object \ {x} : st[y] = stime[y]
      BY <1>0, <1>1
<1>4. InTime(q, st)
  <2>1. ToSet(q) \subseteq Object BY ToSetFacts
  <2>2. \A y \in ToSet(q) : stime[y] = st[y] BY <2>1, <1>3
  <2> QED BY <2>2, InTimeKept
<1>5. /\ EnqTim(q, st, x) \in Seq(Object)
      /\ ToSet(EnqTim(q, st, x)) = ToSet(q) \cup {x}
      /\ Once(EnqTim(q, st, x))
      /\ InTime(EnqTim(q, st, x), st)
      BY <1>3, <1>4, EnqTimFacts
<1> QED BY <1>1, <1>2, <1>3, <1>5

THEOREM InitHolds == Init => IInv
<1> SUFFICES ASSUME Init PROVE IInv OBVIOUS
<1> USE Constants
<1>1. Zero \in Stamp BY WordFacts DEF Zero, Stamp, UW
<1>2. ToSet(timq) = {} /\ ToSet(ssbq) = {} /\ Once(timq) /\ OnceIn(ssbq, Object)
  <2>1. <<>> \in Seq(Object) OBVIOUS
  <2>2. ToSet(<<>>) = {} /\ Once(<<>>) BY <2>1, ToSetFacts
  <2>3. OnceIn(<<>>, Object) BY <2>1, OnceInFacts
  <2> QED BY <2>2, <2>3 DEF Init
<1>3. TypeOK BY <1>1 DEF Init, TypeOK
<1>4. Flags BY DEF Init, Flags
<1>5. Links BY <1>2 DEF Init, Links, Known
<1>6. InTime(timq, stime)
  <2>1. Len(timq) = 0 BY DEF Init
  <2> QED BY <2>1 DEF InTime
<1>7. Timing BY <1>6 DEF Init, Timing, Known
<1>8. Wanted BY DEF Init, Wanted
<1> QED BY <1>3, <1>4, <1>5, <1>7, <1>8 DEF IInv

-----------------------------------------------------------------------------
(* STARTING AND STOPPING                                                   *)

LEMMA StaAlmHolds ==
    ASSUME IInv, NEW a \in Alm, NEW d \in AlmTime, StaAlm(a, d)
    PROVE  IInv'
<1> USE Constants
<1>1. TypeOK /\ Flags /\ Links /\ Timing /\ Wanted BY DEF IInv
<1>2. a \in Object /\ Known(a) /\ d \in UW /\ d \in Nat /\ d > 0 /\ systim \in Stamp
      BY <1>1 DEF StaAlm, MayUse, Known, TypeOK
<1>3. UNCHANGED <<systim, ssbq, cssb, created, creating>> BY DEF StaAlm
<1>4. Value(systim) \in Nat BY <1>2, ValueType
<1>5. due' = [due EXCEPT ![a] = Value(systim) + d] /\ want' = want \cup {a} BY DEF StaAlm
<1>6. CASE "PND" \notin msts[a]
  <2>1. PICK q : q = (IF "STA" \in msts[a] THEN Unlink(timq, a) ELSE timq) OBVIOUS
  <2>2. /\ msts' = [msts EXCEPT ![a] = {"STA"}] /\ Arm(q, a, systim, d)
        /\ deferred' = deferred \ {a}
        BY <1>6, <2>1 DEF StaAlm
  <2>3. /\ q \in Seq(Object) /\ Once(q) /\ ToSet(q) = ToSet(timq) \ {a} /\ InTime(q, stime)
    <3>1. timq \in Seq(Object) /\ stime \in [Object -> Stamp] /\ Once(timq) /\ InTime(timq, stime)
          BY <1>1 DEF TypeOK, Links, Timing
    <3>2. CASE "STA" \in msts[a]
      BY <3>1, <3>2, <2>1, UnlinkFacts
    <3>3. CASE "STA" \notin msts[a]
      <4>1. a \notin ToSet(timq) BY <3>3, <1>1 DEF Links, Linked
      <4> QED BY <3>1, <3>3, <4>1, <2>1
    <3> QED BY <3>2, <3>3
  <2>4. /\ stime' \in [Object -> Stamp]
        /\ Value(stime'[a]) = Value(systim) + d
        /\ \A y \in Object \ {a} : stime'[y] = stime[y]
        /\ timq' \in Seq(Object) /\ Once(timq') /\ ToSet(timq') = ToSet(timq) \cup {a}
        /\ InTime(timq', stime')
    <3>1. stime \in [Object -> Stamp] BY <1>1 DEF TypeOK
    <3> QED BY <3>1, <2>2, <2>3, <1>2, ArmFacts
  <2>5. msts'[a] = {"STA"} /\ \A y \in Object \ {a} : msts'[y] = msts[y]
        BY <2>2, <1>1 DEF TypeOK
  <2>6. due'[a] = Value(systim) + d /\ \A y \in Object \ {a} : due'[y] = due[y]
        BY <1>5, <1>1 DEF TypeOK
  <2>7. TypeOK' BY <1>1, <1>3, <1>4, <1>2, <1>5, <2>2, <2>4 DEF TypeOK
  <2>8. Flags'
    <3>1. creating # a BY <1>2 DEF Known
    <3>2. cssb # a BY <1>1, <1>6 DEF Links
    <3>3. creating \in Cyc \cup {NONE} BY <1>1 DEF TypeOK
    <3>4. creating # NONE => msts'[creating] = msts[creating] BY <3>1, <3>3, <2>5
    <3>5. cssb \in Alm => msts'[cssb] = msts[cssb] BY <3>2, <2>5
    <3>6. \A c \in Cyc : msts'[c] = msts[c] BY <2>5
    <3>7. \A b \in Alm : b = a \/ msts'[b] = msts[b] BY <2>5
    <3> QED BY <3>4, <3>5, <3>6, <3>7, <1>1, <1>3, <2>5 DEF Flags
  <2>9. Links' BY <1>1, <1>2, <1>3, <1>6, <2>4, <2>5 DEF Links, Known, Linked
  <2>10. Timing' BY <1>1, <1>2, <1>3, <1>4, <2>2, <2>4, <2>5, <2>6 DEF Timing, Known, Linked, AlarmTime
  <2>11. Wanted' BY <1>1, <1>2, <1>3, <1>5, <2>5 DEF Wanted, Known, TypeOK
  <2> QED BY <2>7, <2>8, <2>9, <2>10, <2>11 DEF IInv
<1>7. CASE "PND" \in msts[a]
  <2>1. /\ msts' = [msts EXCEPT ![a] = {"PND", "RST"}]
        /\ stime' = [stime EXCEPT ![a].ltime = d]
        /\ timq' = timq /\ deferred' = deferred \cup {a}
        BY <1>7 DEF StaAlm
  <2>2. /\ stime' \in [Object -> Stamp] /\ stime'[a].ltime = d
        /\ \A y \in Object \ {a} : stime'[y] = stime[y]
        BY <2>1, <1>1, <1>2 DEF TypeOK, Stamp
  <2>3. msts'[a] = {"PND", "RST"} /\ \A y \in Object \ {a} : msts'[y] = msts[y]
        BY <2>1, <1>1 DEF TypeOK
  <2>4. due'[a] = Value(systim) + d /\ \A y \in Object \ {a} : due'[y] = due[y]
        BY <1>5, <1>1 DEF TypeOK
  <2>5. a \notin ToSet(timq) BY <1>1, <1>7 DEF Links, Linked
  <2>6. InTime(timq', stime')
    <3>1. ToSet(timq) \subseteq Object BY <1>1, ToSetFacts DEF TypeOK
    <3>2. \A y \in ToSet(timq) : stime[y] = stime'[y] BY <3>1, <2>2, <2>5
    <3> QED BY <3>2, <1>1, <2>1, InTimeKept DEF TypeOK, Timing
  <2>7. TypeOK' BY <1>1, <1>3, <1>4, <1>2, <1>5, <2>1, <2>2 DEF TypeOK
  <2>8. Flags'
    <3>1. creating # a BY <1>2 DEF Known
    <3> QED BY <3>1, <1>1, <1>3, <2>3 DEF Flags, TypeOK
  <2>9. Links' BY <1>1, <1>2, <1>3, <1>7, <2>1, <2>3, <2>5 DEF Links, Known, Linked
  <2>10. Timing' BY <1>1, <1>2, <1>3, <1>4, <2>1, <2>2, <2>3, <2>4, <2>6
               DEF Timing, Known, Linked, AlarmTime
  <2>11. Wanted' BY <1>1, <1>2, <1>3, <1>5, <2>3 DEF Wanted, Known, TypeOK
  <2> QED BY <2>7, <2>8, <2>9, <2>10, <2>11 DEF IInv
<1> QED BY <1>6, <1>7

LEMMA StpAlmHolds ==
    ASSUME IInv, NEW a \in Alm, StpAlm(a)
    PROVE  IInv'
<1> USE Constants
<1>1. TypeOK /\ Flags /\ Links /\ Timing /\ Wanted BY DEF IInv
<1>2. a \in Object /\ Known(a) /\ creating # a
      BY <1>1 DEF StpAlm, MayUse, Known
<1>3. UNCHANGED <<systim, ssbq, cssb, created, creating, stime, due, deferred>> /\ want' = want \ {a}
      BY DEF StpAlm
<1>4. /\ timq \in Seq(Object) /\ Once(timq) /\ stime \in [Object -> Stamp] /\ InTime(timq, stime)
      /\ msts \in [Object -> SUBSET {"STA", "PND", "RST"}] /\ creating \in Cyc \cup {NONE}
      BY <1>1 DEF TypeOK, Links, Timing
<1>5. /\ timq' \in Seq(Object) /\ Once(timq') /\ InTime(timq', stime')
      /\ ToSet(timq') = IF "STA" \in msts[a] THEN ToSet(timq) \ {a} ELSE ToSet(timq)
  <2>1. CASE "STA" \in msts[a] /\ "PND" \notin msts[a]
    <3>1. timq' = Unlink(timq, a) BY <2>1 DEF StpAlm
    <3> QED BY <3>1, <2>1, <1>3, <1>4, UnlinkFacts
  <2>2. CASE "STA" \in msts[a] /\ "PND" \in msts[a]
    <3>1. timq' = timq BY <2>2 DEF StpAlm
    <3>2. a \notin ToSet(timq) BY <1>1, <2>2 DEF Links, Linked
    <3> QED BY <3>1, <3>2, <2>2, <1>3, <1>4
  <2>3. CASE "STA" \notin msts[a]
    <3>1. timq' = timq BY <2>3 DEF StpAlm
    <3> QED BY <3>1, <2>3, <1>3, <1>4
  <2> QED BY <2>1, <2>2, <2>3
<1>6. /\ msts' \in [Object -> SUBSET {"STA", "PND", "RST"}]
      /\ \A y \in Object \ {a} : msts'[y] = msts[y]
      /\ "STA" \in msts[a] => msts'[a] = msts[a] \ {"STA", "RST"}
      /\ "STA" \notin msts[a] => msts'[a] = msts[a]
      BY <1>4, <1>2 DEF StpAlm
<1>7. TypeOK' BY <1>1, <1>3, <1>5, <1>6 DEF TypeOK
<1>8. Flags'
  <2>1. creating # NONE => msts'[creating] = msts[creating] BY <1>2, <1>4, <1>6
  <2>2. cssb \in Alm => msts'[cssb] \subseteq msts[cssb] BY <1>6
  <2>3. \A c \in Cyc : msts'[c] = msts[c] BY <1>6
  <2>4. \A b \in Alm : b = a \/ msts'[b] = msts[b] BY <1>6
  <2> QED BY <2>1, <2>2, <2>3, <2>4, <1>1, <1>3, <1>6 DEF Flags
<1>9. Links'
  <2>1. a \in ToSet(timq') <=> Known(a)' /\ Linked(a)'
        BY <1>1, <1>2, <1>3, <1>4, <1>5, <1>6 DEF Links, Known, Linked
  <2>2. \A y \in Object \ {a} : y \in ToSet(timq') <=> Known(y)' /\ Linked(y)'
        BY <1>1, <1>3, <1>5, <1>6 DEF Links, Known, Linked
  <2>3. \A y \in Object : "PND" \in msts'[y] <=> "PND" \in msts[y] BY <1>6
  <2> QED BY <2>1, <2>2, <2>3, <1>1, <1>3, <1>5 DEF Links, Known
<1>10. Timing'
  <2>1. \A c \in Cyc : msts'[c] = msts[c] BY <1>6
  <2>2. \A b \in Alm : b # a => msts'[b] = msts[b] BY <1>6
  <2>3. \/ ~({"STA", "PND"} \subseteq msts'[a]) /\ msts'[a] # {"STA"}
        \/ msts'[a] = msts[a]
        BY <1>6
  <2>4. "RST" \in msts'[a] => "RST" \in msts[a] BY <1>6
  <2> QED BY <2>1, <2>2, <2>3, <2>4, <1>1, <1>3, <1>5 DEF Timing, Known, Linked, AlarmTime
<1>11. Wanted' BY <1>1, <1>3, <1>6 DEF Wanted, Known, TypeOK
<1> QED BY <1>7, <1>8, <1>9, <1>10, <1>11 DEF IInv

LEMMA StaCycHolds ==
    ASSUME IInv, NEW c \in Cyc, StaCyc(c)
    PROVE  IInv'
<1> USE Constants
<1>1. TypeOK /\ Flags /\ Links /\ Timing /\ Wanted BY DEF IInv
<1>2. c \in Object /\ Known(c) /\ creating # c /\ c \notin Alm
      BY <1>1 DEF StaCyc, MayUse, Known
<1>3. UNCHANGED <<systim, ssbq, cssb, created, creating, want, deferred>>
      BY DEF StaCyc
<1>4. /\ timq \in Seq(Object) /\ Once(timq) /\ stime \in [Object -> Stamp] /\ InTime(timq, stime)
      /\ msts \in [Object -> SUBSET {"STA", "PND", "RST"}] /\ creating \in Cyc \cup {NONE}
      /\ systim \in Stamp /\ due \in [Object -> Nat]
      BY <1>1 DEF TypeOK, Links, Timing
<1>5. /\ msts' \in [Object -> SUBSET {"STA", "PND", "RST"}]
      /\ \A y \in Object \ {c} : msts'[y] = msts[y]
      /\ msts'[c] = msts[c] \cup {"STA"}
      BY <1>4, <1>2 DEF StaCyc
<1>6. /\ timq' \in Seq(Object) /\ Once(timq')
      /\ ToSet(timq') = IF "PND" \in msts[c] THEN ToSet(timq) ELSE ToSet(timq) \cup {c}
      /\ stime' \in [Object -> Stamp] /\ due' \in [Object -> Nat]
      /\ \A y \in Object \ {c} : stime'[y] = stime[y] /\ due'[y] = due[y]
      /\ \/ stime'[c] = stime[c] /\ due'[c] = due[c] /\ (PHS(c) \/ "PND" \in msts[c])
         \/ Value(stime'[c]) = due'[c]
      /\ InTime(timq', stime')
  <2>1. CASE ~PHS(c) /\ "PND" \notin msts[c]
    <3>1. PICK q : q = (IF "STA" \in msts[c] THEN Unlink(timq, c) ELSE timq) OBVIOUS
    <3>2. /\ Arm(q, c, systim, Cyctim[c])
          /\ due' = [due EXCEPT ![c] = Value(systim) + Cyctim[c]]
          BY <2>1, <3>1 DEF StaCyc
    <3>3. q \in Seq(Object) /\ Once(q) /\ ToSet(q) = ToSet(timq) \ {c} /\ InTime(q, stime)
      <4>1. CASE "STA" \in msts[c]
        BY <4>1, <1>4, <3>1, UnlinkFacts
      <4>2. CASE "STA" \notin msts[c]
        <5>1. c \notin ToSet(timq) BY <4>2, <2>1, <1>1, <1>2 DEF Links, Linked
        <5> QED BY <5>1, <4>2, <1>4, <3>1
      <4> QED BY <4>1, <4>2
    <3>4. /\ stime' \in [Object -> Stamp]
          /\ Value(stime'[c]) = Value(systim) + Cyctim[c]
          /\ \A y \in Object \ {c} : stime'[y] = stime[y]
          /\ timq' \in Seq(Object) /\ Once(timq') /\ ToSet(timq') = ToSet(timq) \cup {c}
          /\ InTime(timq', stime')
      <4>1. c \notin ToSet(q) /\ Cyctim[c] \in UW BY <3>3
      <4>2. /\ stime' \in [Object -> Stamp]
            /\ Value(stime'[c]) = Value(systim) + Cyctim[c]
            /\ \A y \in Object \ {c} : stime'[y] = stime[y]
            /\ timq' \in Seq(Object) /\ Once(timq') /\ ToSet(timq') = ToSet(q) \cup {c}
            /\ InTime(timq', stime')
        <5>1. Arm(q, c, systim, Cyctim[c]) BY <3>2
        <5>2. c \in Object /\ systim \in Stamp /\ stime \in [Object -> Stamp] BY <1>2, <1>4
        <5> QED BY <4>1, <5>1, <5>2, <3>3, ArmFacts
      <4> QED BY <4>2, <3>3
    <3>5. Value(systim) + Cyctim[c] \in Nat BY <1>4, ValueType
    <3> QED BY <2>1, <3>2, <3>4, <3>5, <1>2, <1>4
  <2>2. CASE PHS(c) \/ "PND" \in msts[c]
    <3>1. UNCHANGED <<timq, stime, due>> BY <2>2 DEF StaCyc
    <3>2. "PND" \notin msts[c] => c \in ToSet(timq) BY <2>2, <1>1, <1>2 DEF Links, Linked
    <3>3. ToSet(timq') = IF "PND" \in msts[c] THEN ToSet(timq) ELSE ToSet(timq) \cup {c}
          BY <3>1, <3>2
    <3> QED BY <2>2, <3>1, <3>3, <1>4
  <2> QED BY <2>1, <2>2
<1>7. TypeOK' BY <1>1, <1>3, <1>5, <1>6 DEF TypeOK
<1>8. Flags'
  <2>1. creating # NONE => msts'[creating] = msts[creating] BY <1>2, <1>4, <1>5
  <2>2. \A a \in Alm : msts'[a] = msts[a] BY <1>2, <1>5
  <2>3. \A e \in Cyc : "RST" \in msts'[e] => "RST" \in msts[e] BY <1>5
  <2> QED BY <2>1, <2>2, <2>3, <1>1, <1>3 DEF Flags
<1>9. Links'
  <2>1. c \in ToSet(timq') <=> Known(c)' /\ Linked(c)'
        BY <1>1, <1>2, <1>3, <1>5, <1>6 DEF Links, Known, Linked
  <2>2. \A y \in Object \ {c} : y \in ToSet(timq') <=> Known(y)' /\ Linked(y)'
    <3>1. \A y \in Object \ {c} : y \in ToSet(timq') <=> y \in ToSet(timq) BY <1>6
    <3>2. \A y \in Object \ {c} : Linked(y)' <=> Linked(y) BY <1>5 DEF Linked
    <3>3. \A y \in Object : Known(y)' <=> Known(y) BY <1>3 DEF Known
    <3> QED BY <3>1, <3>2, <3>3, <1>1 DEF Links
  <2>3. \A y \in Object : "PND" \in msts'[y] <=> "PND" \in msts[y] BY <1>5
  <2> QED BY <2>1, <2>2, <2>3, <1>1, <1>3, <1>6 DEF Links, Known
<1>10. Timing'
  <2>1. Value(stime'[c]) = due'[c]
    <3>1. CASE stime'[c] = stime[c] /\ due'[c] = due[c] /\ (PHS(c) \/ "PND" \in msts[c])
      BY <3>1, <1>1, <1>2 DEF Timing, Linked
    <3> QED BY <3>1, <1>6
  <2>2. \A a \in Alm : a \in Object \ {c} BY <1>2
  <2>3. \A e \in Cyc \ {c} : e \in Object \ {c} OBVIOUS
  <2> QED BY <2>1, <2>2, <2>3, <1>1, <1>3, <1>5, <1>6 DEF Timing, Known, Linked, AlarmTime
<1>11. Wanted'
  <2>1. \A a \in want : a \in Object \ {c} BY <1>1, <1>2 DEF TypeOK
  <2> QED BY <2>1, <1>1, <1>3, <1>5 DEF Wanted, Known
<1> QED BY <1>7, <1>8, <1>9, <1>10, <1>11 DEF IInv

LEMMA StpCycHolds ==
    ASSUME IInv, NEW c \in Cyc, StpCyc(c)
    PROVE  IInv'
<1> USE Constants
<1>1. TypeOK /\ Flags /\ Links /\ Timing /\ Wanted BY DEF IInv
<1>2. c \in Object /\ Known(c) /\ creating # c /\ c \notin Alm
      BY <1>1 DEF StpCyc, MayUse, Known
<1>3. UNCHANGED <<systim, ssbq, cssb, created, creating, stime, due, deferred, want>>
      BY DEF StpCyc
<1>4. /\ timq \in Seq(Object) /\ Once(timq) /\ stime \in [Object -> Stamp] /\ InTime(timq, stime)
      /\ msts \in [Object -> SUBSET {"STA", "PND", "RST"}] /\ creating \in Cyc \cup {NONE}
      BY <1>1 DEF TypeOK, Links, Timing
<1>5. /\ msts' \in [Object -> SUBSET {"STA", "PND", "RST"}]
      /\ \A y \in Object \ {c} : msts'[y] = msts[y]
      /\ msts'[c] = msts[c] \ {"STA"}
      BY <1>4, <1>2 DEF StpCyc
<1>6. /\ timq' \in Seq(Object) /\ Once(timq') /\ InTime(timq', stime')
      /\ ToSet(timq') = IF PHS(c) THEN ToSet(timq) ELSE ToSet(timq) \ {c}
  <2>1. CASE "STA" \in msts[c] /\ ~PHS(c) /\ "PND" \notin msts[c]
    <3>1. timq' = Unlink(timq, c) BY <2>1 DEF StpCyc
    <3> QED BY <3>1, <2>1, <1>3, <1>4, UnlinkFacts
  <2>2. CASE ~("STA" \in msts[c] /\ ~PHS(c) /\ "PND" \notin msts[c])
    <3>1. timq' = timq BY <2>2 DEF StpCyc
    <3>2. ~PHS(c) => c \notin ToSet(timq) BY <1>1, <1>2, <2>2 DEF Links, Linked
    <3> QED BY <3>1, <3>2, <1>3, <1>4
  <2> QED BY <2>1, <2>2
<1>7. TypeOK' BY <1>1, <1>3, <1>5, <1>6 DEF TypeOK
<1>8. Flags'
  <2>1. creating # NONE => msts'[creating] = msts[creating] BY <1>2, <1>4, <1>5
  <2>2. \A a \in Alm : msts'[a] = msts[a] BY <1>2, <1>5
  <2>3. \A e \in Cyc : "RST" \in msts'[e] => "RST" \in msts[e] BY <1>5
  <2> QED BY <2>1, <2>2, <2>3, <1>1, <1>3 DEF Flags
<1>9. Links'
  <2>1. c \in ToSet(timq') <=> Known(c)' /\ Linked(c)'
        BY <1>1, <1>2, <1>3, <1>5, <1>6 DEF Links, Known, Linked
  <2>2. \A y \in Object \ {c} : y \in ToSet(timq') <=> Known(y)' /\ Linked(y)'
        BY <1>1, <1>3, <1>5, <1>6 DEF Links, Known, Linked
  <2>3. \A y \in Object : "PND" \in msts'[y] <=> "PND" \in msts[y] BY <1>5
  <2> QED BY <2>1, <2>2, <2>3, <1>1, <1>3, <1>6 DEF Links, Known
<1>10. Timing'
  <2>1. Linked(c)' => Linked(c) BY <1>2, <1>5 DEF Linked
  <2>2. \A a \in Alm : a \in Object \ {c} BY <1>2
  <2>3. \A e \in Cyc \ {c} : Linked(e)' <=> Linked(e) BY <1>5 DEF Linked
  <2>4. \A e \in Cyc : "PND" \in msts'[e] <=> "PND" \in msts[e] BY <1>5
  <2> QED BY <2>1, <2>2, <2>3, <2>4, <1>1, <1>3, <1>5, <1>6 DEF Timing, Known, AlarmTime
<1>11. Wanted'
  <2>1. \A a \in want : a \in Object \ {c} BY <1>1, <1>2 DEF TypeOK
  <2> QED BY <2>1, <1>1, <1>3, <1>5 DEF Wanted, Known
<1> QED BY <1>7, <1>8, <1>9, <1>10, <1>11 DEF IInv

-----------------------------------------------------------------------------
(* CREATING AND DELETING                                                   *)

(* At the time of a task no block waits to be served. *)
LEMMA NothingPending ==
    ASSUME IInv, AtTask
    PROVE  \A x \in Object : Known(x) => "PND" \notin msts[x]
<1>1. ToSet(ssbq) = {}
  <2>1. <<>> \in Seq(Object \cup {TICK}) OBVIOUS
  <2> QED BY <2>1, ToSetFacts DEF AtTask
<1>2. cssb \notin Object BY Constants DEF AtTask
<1> QED BY <1>1, <1>2 DEF IInv, Links

LEMMA CreAlmHolds ==
    ASSUME IInv, NEW a \in Alm, CreAlm(a)
    PROVE  IInv'
<1> USE Constants
<1>1. TypeOK /\ Flags /\ Links /\ Timing /\ Wanted BY DEF IInv
<1>2. a \in Object /\ a \notin created /\ a \notin Cyc /\ creating = NONE /\ ~Known(a)
      BY DEF CreAlm, Known
<1>3. /\ UNCHANGED <<deferred, systim, timq, ssbq, cssb, creating, due, want>>
      /\ created' = created \cup {a}
      BY DEF CreAlm
<1>4. /\ timq \in Seq(Object) /\ Once(timq) /\ stime \in [Object -> Stamp] /\ InTime(timq, stime)
      /\ msts \in [Object -> SUBSET {"STA", "PND", "RST"}]
      BY <1>1 DEF TypeOK, Links, Timing
<1>5. /\ msts' \in [Object -> SUBSET {"STA", "PND", "RST"}] /\ msts'[a] = {}
      /\ \A y \in Object \ {a} : msts'[y] = msts[y]
      BY <1>4, <1>2 DEF CreAlm
<1>6. /\ stime' \in [Object -> Stamp] /\ \A y \in Object \ {a} : stime'[y] = stime[y]
  <2>1. Zero \in Stamp BY WordFacts DEF Zero, Stamp, UW
  <2> QED BY <2>1, <1>4 DEF CreAlm
<1>7. InTime(timq', stime')
  <2>1. a \notin ToSet(timq) /\ ToSet(timq) \subseteq Object BY <1>1, <1>2, <1>4, ToSetFacts DEF Links
  <2>2. \A y \in ToSet(timq) : stime[y] = stime'[y] BY <2>1, <1>6
  <2> QED BY <2>2, <1>3, <1>4, InTimeKept
<1>8. TypeOK' BY <1>1, <1>2, <1>3, <1>5, <1>6 DEF TypeOK
<1>9. Flags'
  <2>1. cssb = NONE BY DEF CreAlm, AtTask
  <2>2. \A b \in Alm : b = a \/ msts'[b] = msts[b] BY <1>5
  <2>3. \A c \in Cyc : msts'[c] = msts[c] BY <1>2, <1>5
  <2> QED BY <2>1, <2>2, <2>3, <1>1, <1>2, <1>3, <1>5 DEF Flags
<1>10. \A y \in Object \ {a} : (Known(y)' <=> Known(y)) /\ (Linked(y)' <=> Linked(y))
       BY <1>3, <1>5 DEF Known, Linked
<1>11. ~Linked(a)' BY <1>2, <1>5 DEF Linked
<1>12. Links'
  <2>1. \A y \in Object : y \in ToSet(timq) <=> Known(y)' /\ Linked(y)'
        BY <1>1, <1>2, <1>10, <1>11 DEF Links
  <2>2. \A y \in Object : y \in ToSet(ssbq) \/ y = cssb <=> Known(y)' /\ "PND" \in msts'[y]
        BY <1>1, <1>2, <1>5, <1>10 DEF Links
  <2> QED BY <2>1, <2>2, <1>1, <1>3 DEF Links
<1>13. Timing'
  <2>1. \A c \in Cyc : c \in Object \ {a} BY <1>2
  <2>2. AlarmTime(a)' BY <1>5 DEF AlarmTime
  <2>3. \A b \in Alm \ {a} : AlarmTime(b) => AlarmTime(b)'
        BY <1>3, <1>5, <1>6 DEF AlarmTime
  <2>4. \A c \in Cyc : (Known(c)' <=> Known(c)) /\ (Linked(c)' <=> Linked(c))
        BY <2>1, <1>10
  <2>5. \A c \in Cyc : msts'[c] = msts[c] /\ stime'[c] = stime[c] BY <2>1, <1>5, <1>6
  <2>6. \A b \in Alm \ {a} : Known(b)' <=> Known(b) BY <1>10
  <2> QED BY <2>2, <2>3, <2>4, <2>5, <2>6, <1>1, <1>3, <1>7 DEF Timing
<1>14. Wanted'
  <2>1. \A b \in want : b \in Object \ {a} BY <1>1, <1>2 DEF TypeOK, Wanted
  <2> QED BY <2>1, <1>1, <1>3, <1>5, <1>10 DEF Wanted
<1> QED BY <1>8, <1>9, <1>12, <1>13, <1>14 DEF IInv

LEMMA CreCycHolds ==
    ASSUME IInv, NEW c \in Cyc, CreCyc(c)
    PROVE  IInv'
<1> USE Constants
<1>1. TypeOK /\ Flags /\ Links /\ Timing /\ Wanted BY DEF IInv
<1>2. c \in Object /\ c \notin created /\ c \notin Alm /\ creating = NONE /\ ~Known(c)
      BY DEF CreCyc, Known
<1>3. /\ UNCHANGED <<deferred, systim, timq, ssbq, cssb, due, want>>
      /\ created' = created \cup {c} /\ creating' = IF Oatr[c] # {} THEN c ELSE NONE
      BY DEF CreCyc
<1>4. /\ timq \in Seq(Object) /\ Once(timq) /\ stime \in [Object -> Stamp] /\ InTime(timq, stime)
      /\ msts \in [Object -> SUBSET {"STA", "PND", "RST"}]
      BY <1>1 DEF TypeOK, Links, Timing
<1>5. /\ msts' \in [Object -> SUBSET {"STA", "PND", "RST"}] /\ msts'[c] = {}
      /\ \A y \in Object \ {c} : msts'[y] = msts[y]
      BY <1>4, <1>2 DEF CreCyc
<1>6. /\ stime' \in [Object -> Stamp] /\ \A y \in Object \ {c} : stime'[y] = stime[y]
  <2>1. Zero \in Stamp BY WordFacts DEF Zero, Stamp, UW
  <2> QED BY <2>1, <1>4 DEF CreCyc
<1>7. InTime(timq', stime')
  <2>1. c \notin ToSet(timq) /\ ToSet(timq) \subseteq Object BY <1>1, <1>2, <1>4, ToSetFacts DEF Links
  <2>2. \A y \in ToSet(timq) : stime[y] = stime'[y] BY <2>1, <1>6
  <2> QED BY <2>2, <1>3, <1>4, InTimeKept
<1>8. TypeOK' BY <1>1, <1>2, <1>3, <1>5, <1>6 DEF TypeOK
<1>9. Flags'
  <2>1. cssb = NONE BY DEF CreCyc, AtTask
  <2>2. \A b \in Alm : msts'[b] = msts[b] BY <1>2, <1>5
  <2>3. \A e \in Cyc : e = c \/ msts'[e] = msts[e] BY <1>5
  <2>4. creating' # NONE => creating' = c /\ Oatr[c] # {} BY <1>3
  <2> QED BY <2>1, <2>2, <2>3, <2>4, <1>1, <1>3, <1>5 DEF Flags
<1>10. \A y \in Object \ {c} : (Known(y)' <=> Known(y)) /\ (Linked(y)' <=> Linked(y))
  <2>1. \A y \in Object \ {c} : y # creating /\ y # creating' BY <1>2, <1>3
  <2> QED BY <2>1, <1>3, <1>5 DEF Known, Linked
<1>11. ~(Known(c)' /\ Linked(c)') BY <1>2, <1>3, <1>5 DEF Known, Linked, PHS
<1>12. Links'
  <2>1. \A y \in Object : y \in ToSet(timq) <=> Known(y)' /\ Linked(y)'
        BY <1>1, <1>2, <1>10, <1>11 DEF Links
  <2>2. \A y \in Object : y \in ToSet(ssbq) \/ y = cssb <=> Known(y)' /\ "PND" \in msts'[y]
        BY <1>1, <1>2, <1>5, <1>10 DEF Links
  <2> QED BY <2>1, <2>2, <1>1, <1>3 DEF Links
<1>13. Timing'
  <2>1. \A b \in Alm : b \in Object \ {c} BY <1>2
  <2>2. \A b \in Alm : AlarmTime(b) => AlarmTime(b)'
        BY <2>1, <1>3, <1>5, <1>6 DEF AlarmTime
  <2>3. \A b \in Alm : Known(b)' <=> Known(b) BY <2>1, <1>10
  <2>4. \A e \in Cyc \ {c} : (Known(e)' <=> Known(e)) /\ (Linked(e)' <=> Linked(e))
        BY <1>10
  <2>5. \A e \in Cyc \ {c} : msts'[e] = msts[e] /\ stime'[e] = stime[e] BY <1>5, <1>6
  <2> QED BY <2>2, <2>3, <2>4, <2>5, <1>1, <1>3, <1>5, <1>7, <1>11 DEF Timing
<1>14. Wanted'
  <2>1. \A b \in want : b \in Object \ {c} BY <1>1, <1>2 DEF TypeOK
  <2> QED BY <2>1, <1>1, <1>3, <1>5, <1>10 DEF Wanted
<1> QED BY <1>8, <1>9, <1>12, <1>13, <1>14 DEF IInv

LEMMA CreCycStartHolds ==
    ASSUME IInv, CreCycStart
    PROVE  IInv'
<1> USE Constants
<1>0. PICK c : c = creating OBVIOUS
<1>1. TypeOK /\ Flags /\ Links /\ Timing /\ Wanted BY DEF IInv
<1>2. /\ c \in Cyc /\ c \in Object /\ c \in created /\ c \notin Alm /\ ~Known(c)
      /\ msts[c] = {} /\ Oatr[c] # {}
      BY <1>0, <1>1 DEF CreCycStart, Known, Flags, TypeOK
<1>3. /\ UNCHANGED <<deferred, systim, ssbq, cssb, created, want>> /\ creating' = NONE
      BY DEF CreCycStart
<1>4. /\ timq \in Seq(Object) /\ Once(timq) /\ stime \in [Object -> Stamp] /\ InTime(timq, stime)
      /\ msts \in [Object -> SUBSET {"STA", "PND", "RST"}]
      /\ systim \in Stamp /\ due \in [Object -> Nat]
      BY <1>1 DEF TypeOK, Links, Timing
<1>5. /\ msts' \in [Object -> SUBSET {"STA", "PND", "RST"}] /\ msts'[c] = Oatr[c] \cap {"STA"}
      /\ \A y \in Object \ {c} : msts'[y] = msts[y]
      BY <1>0, <1>4, <1>2 DEF CreCycStart
<1>6. c \notin ToSet(timq) BY <1>1, <1>2 DEF Links
<1>7. PICK d \in UW : d = Cycphs[c] + Tick /\ d \in Nat BY <1>2
<1>8. /\ stime' \in [Object -> Stamp] /\ Value(stime'[c]) = Value(systim) + d
      /\ \A y \in Object \ {c} : stime'[y] = stime[y]
      /\ timq' \in Seq(Object) /\ Once(timq') /\ ToSet(timq') = ToSet(timq) \cup {c}
      /\ InTime(timq', stime')
  <2>1. Arm(timq, c, systim, d) BY <1>0, <1>7 DEF CreCycStart
  <2> QED BY <2>1, <1>2, <1>4, <1>6, ArmFacts
<1>9. /\ due' \in [Object -> Nat] /\ Value(stime'[c]) = due'[c]
      /\ \A y \in Object \ {c} : due'[y] = due[y]
  <2>1. Value(systim) \in Nat BY <1>4, ValueType
  <2>2. Cycphs[c] \in Nat /\ Tick \in Nat BY <1>2
  <2>3. Value(systim) + Cycphs[c] + Tick = Value(systim) + d BY <2>1, <2>2, <1>7
  <2>4. due' = [due EXCEPT ![c] = Value(systim) + d] BY <2>3, <1>0 DEF CreCycStart
  <2> QED BY <2>4, <2>1, <1>2, <1>4, <1>7, <1>8
<1>10. TypeOK' BY <1>1, <1>2, <1>3, <1>5, <1>8, <1>9 DEF TypeOK
<1>11. Flags'
  <2>1. cssb = NONE BY DEF CreCycStart, AtTask
  <2>2. \A b \in Alm : msts'[b] = msts[b] BY <1>2, <1>5
  <2>3. \A e \in Cyc : e = c \/ msts'[e] = msts[e] BY <1>5
  <2> QED BY <2>1, <2>2, <2>3, <1>1, <1>3, <1>5 DEF Flags
<1>12. \A y \in Object \ {c} : (Known(y)' <=> Known(y)) /\ (Linked(y)' <=> Linked(y))
  <2>1. \A y \in Object \ {c} : y # creating /\ y # creating' BY <1>0, <1>3
  <2> QED BY <2>1, <1>3, <1>5 DEF Known, Linked
<1>13. Known(c)' /\ Linked(c)' /\ "PND" \notin msts'[c]
  <2>1. c # creating' BY <1>2, <1>3
  <2>2. "PND" \notin msts'[c] /\ (PHS(c) \/ "STA" \in msts'[c]) BY <1>2, <1>5 DEF PHS
  <2> QED BY <2>1, <2>2, <1>2, <1>3 DEF Known, Linked
<1>14. Links'
  <2>1. \A y \in Object : y \in ToSet(timq') <=> Known(y)' /\ Linked(y)'
        BY <1>1, <1>8, <1>12, <1>13 DEF Links
  <2>2. \A y \in Object : y \in ToSet(ssbq) \/ y = cssb <=> Known(y)' /\ "PND" \in msts'[y]
        BY <1>1, <1>2, <1>5, <1>12, <1>13 DEF Links
  <2> QED BY <2>1, <2>2, <1>1, <1>3, <1>8 DEF Links
<1>15. Timing'
  <2>1. \A b \in Alm : b \in Object \ {c} BY <1>2
  <2>2. \A b \in Alm : AlarmTime(b) => AlarmTime(b)'
        BY <2>1, <1>3, <1>5, <1>8, <1>9 DEF AlarmTime
  <2>3. \A b \in Alm : Known(b)' <=> Known(b) BY <2>1, <1>12
  <2>4. \A e \in Cyc \ {c} : (Known(e)' <=> Known(e)) /\ (Linked(e)' <=> Linked(e))
        BY <1>12
  <2>5. \A e \in Cyc \ {c} : msts'[e] = msts[e] /\ stime'[e] = stime[e] /\ due'[e] = due[e]
        BY <1>5, <1>8, <1>9
  <2> QED BY <2>2, <2>3, <2>4, <2>5, <1>1, <1>3, <1>8, <1>9 DEF Timing
<1>16. Wanted'
  <2>1. \A b \in want : b \in Object \ {c} BY <1>1, <1>2 DEF TypeOK
  <2> QED BY <2>1, <1>1, <1>3, <1>5, <1>12 DEF Wanted
<1> QED BY <1>10, <1>11, <1>14, <1>15, <1>16 DEF IInv

(* Deletion of x, alarm or cyclic handler alike. *)
LEMMA DeleteHolds ==
    ASSUME IInv, NEW x \in Object, AtTask, creating = NONE, x \in created,
           timq' = IF Linked(x) THEN Unlink(timq, x) ELSE timq,
           created' = created \ {x}, want' = want \ {x},
           UNCHANGED <<deferred, systim, ssbq, cssb, creating, msts, stime, due>>
    PROVE  IInv'
<1> USE Constants
<1>1. TypeOK /\ Flags /\ Links /\ Timing /\ Wanted BY DEF IInv
<1>2. /\ timq \in Seq(Object) /\ Once(timq) /\ stime \in [Object -> Stamp] /\ InTime(timq, stime)
      BY <1>1 DEF TypeOK, Links, Timing
<1>3. Known(x) /\ "PND" \notin msts[x]
  <2>1. Known(x) BY DEF Known
  <2> QED BY <2>1, NothingPending
<1>4. /\ timq' \in Seq(Object) /\ Once(timq') /\ InTime(timq', stime')
      /\ ToSet(timq') = ToSet(timq) \ {x}
  <2>1. CASE Linked(x)
    <3>1. timq' = Unlink(timq, x) BY <2>1
    <3> QED BY <3>1, <1>2, UnlinkFacts
  <2>2. CASE ~Linked(x)
    <3>1. x \notin ToSet(timq) /\ timq' = timq BY <2>2, <1>1 DEF Links
    <3> QED BY <3>1, <1>2
  <2> QED BY <2>1, <2>2
<1>5. /\ ~Known(x)' /\ \A y \in Object \ {x} : Known(y)' <=> Known(y)
      BY DEF Known
<1>6. \A y \in Object : Linked(y)' <=> Linked(y) BY DEF Linked
<1>7. TypeOK' BY <1>1, <1>4 DEF TypeOK
<1>8. Flags' BY <1>1 DEF Flags
<1>9. Links'
  <2>1. \A y \in Object : y \in ToSet(timq') <=> Known(y)' /\ Linked(y)'
        BY <1>1, <1>4, <1>5, <1>6 DEF Links
  <2>2. \A y \in Object : y \in ToSet(ssbq) \/ y = cssb <=> Known(y)' /\ "PND" \in msts[y]
        BY <1>1, <1>3, <1>5 DEF Links
  <2> QED BY <2>1, <2>2, <1>1, <1>4 DEF Links
<1>10. Timing'
  <2>1. \A b \in Alm : AlarmTime(b)' <=> AlarmTime(b) BY DEF AlarmTime
  <2>2. \A y \in Object : Known(y)' => Known(y) BY <1>5
  <2> QED BY <2>1, <2>2, <1>1, <1>4, <1>6 DEF Timing
<1>11. Wanted' BY <1>1, <1>5 DEF Wanted, TypeOK
<1> QED BY <1>7, <1>8, <1>9, <1>10, <1>11 DEF IInv

LEMMA DelAlmHolds ==
    ASSUME IInv, NEW a \in Alm, DelAlm(a)
    PROVE  IInv'
<1>1. a \in Object /\ a \notin Cyc BY Constants
<1>2. Linked(a) <=> msts[a] = {"STA"} BY <1>1 DEF Linked
<1> QED BY <1>1, <1>2, DeleteHolds DEF DelAlm

LEMMA DelCycHolds ==
    ASSUME IInv, NEW c \in Cyc, DelCyc(c)
    PROVE  IInv'
<1>1. c \in Object /\ c \notin Alm BY Constants
<1>2. Known(c) BY <1>1, Constants DEF DelCyc, Known
<1>3. "PND" \notin msts[c] BY <1>1, <1>2, NothingPending DEF DelCyc
<1>4. "RST" \notin msts[c] /\ msts[c] \subseteq {"STA", "PND", "RST"}
      BY <1>1 DEF IInv, Flags, TypeOK
<1>5. Linked(c) <=> PHS(c) \/ msts[c] = {"STA"}
  <2>1. msts[c] = {"STA"} <=> "STA" \in msts[c] BY <1>3, <1>4
  <2> QED BY <2>1, <1>1, <1>3 DEF Linked
<1>6. want \ {c} = want
  <2>1. want \subseteq Alm BY DEF IInv, TypeOK
  <2> QED BY <2>1, <1>1
<1> QED BY <1>1, <1>5, <1>6, DeleteHolds DEF DelCyc

-----------------------------------------------------------------------------
(* TICKS AND CALLS                                                         *)

LEMMA PostTickHolds ==
    ASSUME IInv, PostTick
    PROVE  IInv'
<1> USE Constants
<1>1. TypeOK /\ Flags /\ Links /\ Timing /\ Wanted BY DEF IInv
<1>2. /\ UNCHANGED <<deferred, systim, timq, cssb, created, creating, msts, stime, due, want>>
      /\ ssbq' = Append(ssbq, TICK)
      BY DEF PostTick
<1>3. /\ ssbq' \in Seq(Object \cup {TICK}) /\ ToSet(ssbq') = ToSet(ssbq) \cup {TICK}
      /\ OnceIn(ssbq', Object)
  <2>1. ssbq \in Seq(Object \cup {TICK}) /\ TICK \in Object \cup {TICK} BY <1>1 DEF TypeOK
  <2>2. OnceIn(ssbq, Object) BY <1>1 DEF Links
  <2>3. OnceIn(Append(ssbq, TICK), Object) BY <2>1, <2>2, OnceInFacts
  <2> QED BY <2>1, <2>3, <1>2, AppendOnce
<1>4. TypeOK' BY <1>1, <1>2, <1>3 DEF TypeOK
<1>5. Flags' BY <1>1, <1>2 DEF Flags
<1>6. Links'
  <2>1. cssb # TICK BY <1>1 DEF TypeOK
  <2>2. \A y \in Object : (Known(y)' <=> Known(y)) /\ (Linked(y)' <=> Linked(y))
        BY <1>2 DEF Known, Linked
  <2>3. \A y \in Object : y \in ToSet(ssbq') <=> y \in ToSet(ssbq) BY <1>3
  <2> QED BY <2>1, <2>2, <2>3, <1>1, <1>2, <1>3 DEF Links
<1>7. Timing'
  <2>1. \A y \in Object : (Known(y)' <=> Known(y)) /\ (Linked(y)' <=> Linked(y))
        BY <1>2 DEF Known, Linked
  <2>2. \A a \in Alm : AlarmTime(a)' <=> AlarmTime(a) BY <1>2 DEF AlarmTime
  <2> QED BY <2>1, <2>2, <1>1, <1>2 DEF Timing
<1>8. Wanted' BY <1>1, <1>2 DEF Wanted, Known
<1> QED BY <1>4, <1>5, <1>6, <1>7, <1>8 DEF IInv

(* The block at the head is that of x: its flags tell. *)
LEMMA ServedFacts ==
    ASSUME IInv, NEW x \in Object, Serving(x)
    PROVE  /\ Known(x) /\ "PND" \in msts[x] /\ x \notin ToSet(timq) /\ x # NONE
           /\ Tail(ssbq) \in Seq(Object \cup {TICK}) /\ OnceIn(Tail(ssbq), Object)
           /\ \A y \in Object : y \in ToSet(Tail(ssbq)) <=> y \in ToSet(ssbq) /\ y # x
<1>1. ssbq \in Seq(Object \cup {TICK}) /\ ssbq # <<>> /\ OnceIn(ssbq, Object) /\ Head(ssbq) = x
      BY DEF IInv, TypeOK, Links, Serving
<1>2. x \in ToSet(ssbq) /\ Tail(ssbq) \in Seq(Object \cup {TICK}) BY <1>1, TailOnce
<1>3. /\ OnceIn(Tail(ssbq), Object)
      /\ \A y \in Object : y \in ToSet(Tail(ssbq)) <=> y \in ToSet(ssbq) /\ y # x
      BY <1>1, OnceInFacts
<1>4. Known(x) /\ "PND" \in msts[x] BY <1>2 DEF IInv, Links
<1>5. x \notin ToSet(timq) BY <1>4 DEF IInv, Links, Linked
<1> QED BY <1>2, <1>3, <1>4, <1>5, Constants

LEMMA CallHandlerHolds ==
    ASSUME IInv, NEW x \in Object, CallHandler(x)
    PROVE  IInv'
<1> USE Constants
<1>1. TypeOK /\ Flags /\ Links /\ Timing /\ Wanted BY DEF IInv
<1>2. Serving(x) /\ "STA" \in msts[x] /\ cssb = NONE BY DEF CallHandler, Serving
<1>3. /\ UNCHANGED <<deferred, systim, timq, created, creating, stime, due>>
      /\ ssbq' = Tail(ssbq) /\ cssb' = x /\ want' = want \ {x}
      BY DEF CallHandler
<1>4. /\ Known(x) /\ "PND" \in msts[x] /\ x \notin ToSet(timq) /\ x # NONE
      /\ ssbq' \in Seq(Object \cup {TICK}) /\ OnceIn(ssbq', Object)
      /\ \A y \in Object : y \in ToSet(ssbq') <=> y \in ToSet(ssbq) /\ y # x
      BY <1>2, <1>3, ServedFacts
<1>5. /\ msts' \in [Object -> SUBSET {"STA", "PND", "RST"}]
      /\ \A y \in Object \ {x} : msts'[y] = msts[y]
      /\ msts'[x] = IF x \in Alm THEN msts[x] \ {"STA"} ELSE msts[x]
      BY <1>1 DEF TypeOK, CallHandler
<1>6. x \in Alm => "RST" \notin msts[x] BY <1>1, <1>2 DEF Flags
<1>7. TypeOK' BY <1>1, <1>3, <1>4, <1>5 DEF TypeOK
<1>8. Flags'
  <2>1. creating # NONE => creating # x BY <1>4 DEF Known
  <2>2. creating \in Cyc \cup {NONE} BY <1>1 DEF TypeOK
  <2>3. creating # NONE => msts'[creating] = msts[creating] BY <2>1, <2>2, <1>5
  <2>4. \A e \in Cyc : msts'[e] = msts[e] BY <1>5
  <2>5. \A b \in Alm : b = x \/ msts'[b] = msts[b] BY <1>5
  <2> QED BY <2>3, <2>4, <2>5, <1>1, <1>3, <1>5, <1>6 DEF Flags
<1>9. \A y \in Object : Known(y)' <=> Known(y) BY <1>3 DEF Known
<1>10. \A y \in Object : Linked(y)' <=> Linked(y)
  <2>1. ~Linked(x) BY <1>4 DEF Linked
  <2>2. ~Linked(x)' BY <1>4, <1>5 DEF Linked
  <2>3. \A y \in Object \ {x} : Linked(y)' <=> Linked(y) BY <1>5 DEF Linked
  <2> QED BY <2>1, <2>2, <2>3
<1>11. Links'
  <2>1. \A y \in Object : y \in ToSet(ssbq') \/ y = cssb' <=> Known(y)' /\ "PND" \in msts'[y]
    <3>1. \A y \in Object : "PND" \in msts'[y] <=> "PND" \in msts[y] BY <1>5
    <3>2. \A y \in Object : y # cssb BY <1>2
    <3> QED BY <3>1, <3>2, <1>1, <1>3, <1>4, <1>9 DEF Links
  <2>2. cssb' \notin ToSet(ssbq') BY <1>3, <1>4
  <2> QED BY <2>1, <2>2, <1>1, <1>3, <1>4, <1>9, <1>10 DEF Links
<1>12. Timing'
  <2>1. x \in Alm => AlarmTime(x)' BY <1>4, <1>5, <1>6 DEF AlarmTime
  <2>2. \A b \in Alm \ {x} : AlarmTime(b)' <=> AlarmTime(b) BY <1>3, <1>5 DEF AlarmTime
  <2>3. \A e \in Cyc : msts'[e] = msts[e] BY <1>5
  <2> QED BY <2>1, <2>2, <2>3, <1>1, <1>3, <1>9, <1>10 DEF Timing
<1>13. Wanted' BY <1>1, <1>3, <1>5, <1>9 DEF Wanted, TypeOK
<1> QED BY <1>7, <1>8, <1>11, <1>12, <1>13 DEF IInv

(* The end of a call, or of one that was not made. *)
LEMMA FinishHolds ==
    ASSUME IInv, NEW x \in Object, Known(x), "PND" \in msts[x],
           x \in Alm => "STA" \notin msts[x],
           Finish(x, msts[x]),
           UNCHANGED <<deferred, systim, created, creating, want>>,
           ssbq' \in Seq(Object \cup {TICK}), OnceIn(ssbq', Object), cssb' = NONE,
           \A y \in Object : y \in ToSet(ssbq') <=> (y \in ToSet(ssbq) \/ y = cssb) /\ y # x
    PROVE  IInv'
<1> USE Constants
<1>1. TypeOK /\ Flags /\ Links /\ Timing /\ Wanted BY DEF IInv
<1>2. /\ timq \in Seq(Object) /\ Once(timq) /\ stime \in [Object -> Stamp] /\ InTime(timq, stime)
      /\ msts \in [Object -> SUBSET {"STA", "PND", "RST"}]
      /\ systim \in Stamp /\ due \in [Object -> Nat] /\ creating \in Cyc \cup {NONE}
      BY <1>1 DEF TypeOK, Links, Timing
<1>3. x \notin ToSet(timq) /\ x # creating BY <1>1 DEF Links, Linked, Known
(* What happens to the queue and the time, whichever handler it is. *)
<1>4. /\ msts' \in [Object -> SUBSET {"STA", "PND", "RST"}]
      /\ "PND" \notin msts'[x] /\ "RST" \notin msts'[x]
      /\ \A y \in Object \ {x} : msts'[y] = msts[y]
  <2>1. CASE x \in Alm /\ "RST" \in msts[x]
    <3>1. msts' = [msts EXCEPT ![x] = {"STA"}] BY <2>1 DEF Finish
    <3> QED BY <3>1, <1>2
  <2>2. CASE x \in Alm /\ "RST" \notin msts[x]
    <3>1. msts' = [msts EXCEPT ![x] = msts[x] \ {"PND"}] BY <2>2 DEF Finish
    <3> QED BY <3>1, <2>2, <1>2
  <2>3. CASE x \in Cyc
    <3>1. msts' = [msts EXCEPT ![x] = msts[x] \ {"PND"}] BY <2>3 DEF Finish
    <3>2. "RST" \notin msts[x] BY <2>3, <1>1 DEF Flags
    <3> QED BY <3>1, <3>2, <1>2
  <2> QED BY <2>1, <2>2, <2>3
<1>5. /\ stime' \in [Object -> Stamp] /\ due' \in [Object -> Nat]
      /\ \A y \in Object \ {x} : stime'[y] = stime[y] /\ due'[y] = due[y]
      /\ timq' \in Seq(Object) /\ Once(timq') /\ InTime(timq', stime')
      /\ \A y \in Object \ {x} : y \in ToSet(timq') <=> y \in ToSet(timq)
      /\ x \in ToSet(timq') <=> Linked(x)'
      /\ x \in Cyc /\ Linked(x)' => Value(stime'[x]) = due'[x]
      /\ x \in Alm => AlarmTime(x)'
      /\ x \in want => "STA" \in msts'[x]
  <2>1. CASE x \in Alm /\ "RST" \in msts[x]
    <3>0. x \notin Cyc BY <2>1
    <3>1. /\ Arm(timq, x, systim, stime[x].ltime) /\ due' = due
          /\ msts'[x] = {"STA"}
          BY <2>1, <1>2 DEF Finish
    <3>2. PICK d \in UW : d = stime[x].ltime /\ d \in Nat BY <1>2 DEF Stamp
    <3>3. d > 0 /\ x \in deferred /\ Value(systim) + d >= due[x]
      <4>1. AlarmTime(x) BY <2>1, <1>1 DEF Timing
      <4> QED BY <4>1, <3>2, <2>1 DEF AlarmTime
    <3>4. /\ stime' \in [Object -> Stamp] /\ Value(stime'[x]) = Value(systim) + d
          /\ \A y \in Object \ {x} : stime'[y] = stime[y]
          /\ timq' \in Seq(Object) /\ Once(timq') /\ ToSet(timq') = ToSet(timq) \cup {x}
          /\ InTime(timq', stime')
      <4>1. Arm(timq, x, systim, d) BY <3>1, <3>2
      <4>2. timq \in Seq(Object) /\ stime \in [Object -> Stamp] /\ systim \in Stamp
            BY <1>2
      <4>3. Once(timq) /\ x \notin ToSet(timq) /\ InTime(timq, stime)
            BY <1>2, <1>3
      <4> QED BY ONLY <4>1, <4>2, <4>3, x \in Object, d \in UW, ArmFacts
    <3>5. Value(systim) \in Nat /\ due[x] \in Nat BY <1>2, ValueType
    <3>6. Linked(x)' BY <2>1, <3>1 DEF Linked
    <3>7. AlarmTime(x)'
      <4>1. Value(stime'[x]) > Value(systim) BY <3>3, <3>4, <3>5, <3>2
      <4>2. Value(stime'[x]) = due[x] \/ Value(stime'[x]) > due[x]
        <5>1. PICK v \in Nat : v = Value(systim) BY <3>5
        <5>2. PICK e \in Nat : e = due[x] BY <3>5
        <5>3. v + d >= e /\ d \in Nat BY <5>1, <5>2, <3>2, <3>3
        <5>4. v + d = e \/ v + d > e BY <5>3
        <5> QED BY <5>1, <5>2, <5>4, <3>4
      <4> QED BY <4>1, <4>2, <3>1, <3>3 DEF AlarmTime
    <3> QED BY <3>0, <3>1, <3>4, <3>6, <3>7, <1>2
  <2>2. CASE x \in Alm /\ "RST" \notin msts[x]
    <3>1. UNCHANGED <<timq, stime, due>> /\ msts'[x] = {}
      <4>1. msts'[x] = msts[x] \ {"PND"} /\ UNCHANGED <<timq, stime, due>>
            BY <2>2, <1>2 DEF Finish
      <4> QED BY <4>1, <2>2, <1>2
    <3>2. x \notin Cyc BY <2>2
    <3>3. ~Linked(x)' BY <3>1, <3>2 DEF Linked
    <3>4. AlarmTime(x)' BY <3>1 DEF AlarmTime
    <3>5. x \notin want BY <2>2, <1>1 DEF Wanted
    <3> QED BY <3>1, <3>2, <3>3, <3>4, <3>5, <1>2, <1>3
  <2>3. CASE x \in Cyc /\ (PHS(x) \/ "STA" \in msts[x])
    <3>0. x \notin Alm /\ x \notin want BY <2>3, <1>1 DEF TypeOK
    <3>1. /\ Arm(timq, x, stime[x], Cyctim[x])
          /\ due' = [due EXCEPT ![x] = due[x] + Cyctim[x]]
          /\ msts'[x] = msts[x] \ {"PND"}
          BY <2>3, <3>0, <1>2 DEF Finish
    <3>2. PICK d \in UW : d = Cyctim[x] /\ d \in Nat BY <2>3
    <3>3. PICK from \in Stamp : from = stime[x] BY <1>2
    <3>4. /\ stime' \in [Object -> Stamp] /\ Value(stime'[x]) = Value(from) + d
          /\ \A y \in Object \ {x} : stime'[y] = stime[y]
          /\ timq' \in Seq(Object) /\ Once(timq') /\ ToSet(timq') = ToSet(timq) \cup {x}
          /\ InTime(timq', stime')
      <4>1. Arm(timq, x, from, d) BY <3>1, <3>2, <3>3
      <4>2. timq \in Seq(Object) /\ stime \in [Object -> Stamp] /\ from \in Stamp
            BY <1>2
      <4>3. Once(timq) /\ x \notin ToSet(timq) /\ InTime(timq, stime)
            BY <1>2, <1>3
      <4> QED BY ONLY <4>1, <4>2, <4>3, x \in Object, d \in UW, ArmFacts
    <3>5. Linked(x)'
      <4>1. "PND" \notin msts'[x] /\ ("STA" \in msts[x] => "STA" \in msts'[x]) BY <3>1
      <4> QED BY <4>1, <2>3 DEF Linked
    <3>6. Value(from) = due[x] BY <3>3, <2>3, <1>1 DEF Timing
    <3>7. due' \in [Object -> Nat] /\ due'[x] = due[x] + d
          /\ \A y \in Object \ {x} : due'[y] = due[y]
          BY <3>1, <3>2, <1>2
    <3> QED BY <3>0, <3>4, <3>5, <3>6, <3>7
  <2>4. CASE x \in Cyc /\ ~(PHS(x) \/ "STA" \in msts[x])
    <3>0. x \notin Alm /\ x \notin want BY <2>4, <1>1 DEF TypeOK
    <3>1. UNCHANGED <<timq, stime, due>> /\ msts'[x] = msts[x] \ {"PND"}
          BY <2>4, <3>0, <1>2 DEF Finish
    <3>2. ~Linked(x)'
      <4>1. "STA" \notin msts'[x] BY <3>1, <2>4
      <4> QED BY <4>1, <3>0, <2>4 DEF Linked
    <3> QED BY <3>0, <3>1, <3>2, <1>2, <1>3
  <2> QED BY <2>1, <2>2, <2>3, <2>4
<1>6. TypeOK' BY <1>1, <1>4, <1>5 DEF TypeOK
<1>7. Flags'
  <2>1. creating # NONE => msts'[creating] = msts[creating] BY <1>2, <1>3, <1>4
  <2>2. \A e \in Cyc : e = x \/ msts'[e] = msts[e] BY <1>4
  <2>3. \A b \in Alm : b = x \/ msts'[b] = msts[b] BY <1>4
  <2>4. cssb' \notin Alm OBVIOUS
  <2> QED BY <2>1, <2>2, <2>3, <2>4, <1>1, <1>4 DEF Flags
<1>8. \A y \in Object : Known(y)' <=> Known(y) BY DEF Known
<1>9. \A y \in Object \ {x} : Linked(y)' <=> Linked(y) BY <1>4 DEF Linked
<1>10. Links'
  <2>1. \A y \in Object : y \in ToSet(timq') <=> Known(y)' /\ Linked(y)'
        BY <1>1, <1>5, <1>8, <1>9 DEF Links
  <2>2. \A y \in Object : y \in ToSet(ssbq') \/ y = cssb' <=> Known(y)' /\ "PND" \in msts'[y]
    <3>1. \A y \in Object : y # cssb' OBVIOUS
    <3> QED BY <3>1, <1>1, <1>4, <1>8 DEF Links
  <2>3. cssb' \notin ToSet(ssbq')
    <3>1. ToSet(ssbq') \subseteq Object \cup {TICK} BY ToSetFacts
    <3> QED BY <3>1
  <2> QED BY <2>1, <2>2, <2>3, <1>5 DEF Links
<1>11. Timing'
  <2>1. \A b \in Alm \ {x} : AlarmTime(b)' <=> AlarmTime(b) BY <1>4, <1>5 DEF AlarmTime
  <2>2. \A e \in Cyc \ {x} : /\ (Linked(e)' <=> Linked(e)) /\ (Known(e)' <=> Known(e))
                             /\ msts'[e] = msts[e] /\ stime'[e] = stime[e] /\ due'[e] = due[e]
        BY <1>4, <1>5, <1>8, <1>9
  <2>3. \A b \in Alm \ {x} : Known(b)' <=> Known(b) BY <1>8
  <2> QED BY <2>1, <2>2, <2>3, <1>1, <1>4, <1>5 DEF Timing
<1>12. Wanted'
  <2>1. \A b \in want : b \in Object BY <1>1 DEF TypeOK
  <2> QED BY <2>1, <1>1, <1>4, <1>5, <1>8 DEF Wanted
<1> QED BY <1>6, <1>7, <1>10, <1>11, <1>12 DEF IInv

LEMMA SkipHolds ==
    ASSUME IInv, NEW x \in Object, Skip(x)
    PROVE  IInv'
<1>1. Serving(x) /\ cssb = NONE BY DEF Skip, Serving
<1>2. ssbq' = Tail(ssbq) /\ cssb' = NONE BY <1>1 DEF Skip
<1>3. /\ Known(x) /\ "PND" \in msts[x]
      /\ ssbq' \in Seq(Object \cup {TICK}) /\ OnceIn(ssbq', Object)
      /\ \A y \in Object : y \in ToSet(ssbq') <=> y \in ToSet(ssbq) /\ y # x
      BY <1>1, <1>2, ServedFacts
<1>4. \A y \in Object : y # cssb BY <1>1, Constants
<1>5. "STA" \notin msts[x] /\ Finish(x, msts[x])
      /\ UNCHANGED <<deferred, systim, created, creating, want>>
      BY DEF Skip
<1> QED BY <1>2, <1>3, <1>4, <1>5, FinishHolds

LEMMA HandlerReturnsHolds ==
    ASSUME IInv, HandlerReturns
    PROVE  IInv'
<1>0. PICK x \in Object : x = cssb BY DEF IInv, TypeOK, HandlerReturns
<1>1. /\ Known(x) /\ "PND" \in msts[x] /\ x \notin ToSet(ssbq)
      /\ ssbq \in Seq(Object \cup {TICK}) /\ OnceIn(ssbq, Object)
      BY <1>0 DEF IInv, TypeOK, Links
<1>2. x \in Alm => "STA" \notin msts[x] BY <1>0 DEF IInv, Flags
<1>3. /\ cssb' = NONE /\ ssbq' = ssbq /\ Finish(x, msts[x])
      /\ UNCHANGED <<deferred, systim, created, creating, want>>
      BY <1>0 DEF HandlerReturns
<1>4. \A y \in Object : y \in ToSet(ssbq') <=> (y \in ToSet(ssbq) \/ y = cssb) /\ y # x
      BY <1>0, <1>1, <1>3
<1> QED BY <1>1, <1>2, <1>3, <1>4, FinishHolds

LEMMA SigTimHolds ==
    ASSUME IInv, SigTim
    PROVE  IInv'
<1> USE Constants
<1>1. TypeOK /\ Flags /\ Links /\ Timing /\ Wanted BY DEF IInv
<1>2. /\ timq \in Seq(Object) /\ Once(timq) /\ stime \in [Object -> Stamp] /\ InTime(timq, stime)
      /\ msts \in [Object -> SUBSET {"STA", "PND", "RST"}] /\ systim \in Stamp
      /\ due \in [Object -> Nat]
      BY <1>1 DEF TypeOK, Links, Timing
<1>3. PICK now : now = systim' OBVIOUS
<1>4. PICK fired : fired = DueOf(timq, stime, now) OBVIOUS
<1>5. /\ UNCHANGED <<deferred, cssb, created, creating, stime, due, want>>
      /\ ssbq' = Tail(ssbq) \o fired /\ timq' = RestOf(timq, stime, now)
      /\ msts' = [x \in Object |->
                     IF Contains(fired, x) THEN msts[x] \cup {"PND"} ELSE msts[x]]
      /\ now = Advance(systim, Tick) /\ cssb = NONE
      BY <1>3, <1>4 DEF SigTim, Serving
<1>6. now \in Stamp /\ Value(now) = Value(systim) + Tick
      BY <1>2, <1>5, AdvanceExact
<1>7. /\ fired \in Seq(Object) /\ timq' \in Seq(Object) /\ Once(fired) /\ Once(timq')
      /\ InTime(timq', stime')
      /\ \A x : x \in ToSet(fired) <=> x \in ToSet(timq) /\ Value(stime[x]) <= Value(now)
      /\ \A x : x \in ToSet(timq') <=> x \in ToSet(timq) /\ Value(stime[x]) > Value(now)
      BY <1>2, <1>4, <1>5, <1>6, DueFacts
<1>8. /\ msts' \in [Object -> SUBSET {"STA", "PND", "RST"}]
      /\ \A x \in Object : x \in ToSet(fired) => msts'[x] = msts[x] \cup {"PND"}
      /\ \A x \in Object : x \notin ToSet(fired) => msts'[x] = msts[x]
  <2>1. \A x : Contains(fired, x) <=> x \in ToSet(fired) BY <1>7, ToSetFacts
  <2> QED BY <2>1, <1>2, <1>5
(* The queue of service blocks. *)
<1>9. /\ Tail(ssbq) \in Seq(Object \cup {TICK}) /\ OnceIn(Tail(ssbq), Object)
      /\ \A x \in Object : x \in ToSet(Tail(ssbq)) <=> x \in ToSet(ssbq)
  <2>1. /\ ssbq \in Seq(Object \cup {TICK}) /\ ssbq # <<>> /\ Head(ssbq) = TICK
        /\ OnceIn(ssbq, Object)
        BY <1>1 DEF TypeOK, Links, SigTim, Serving
  <2>2. Tail(ssbq) \in Seq(Object \cup {TICK}) BY <2>1, TailOnce
  <2>3. /\ OnceIn(Tail(ssbq), Object)
        /\ \A x \in Object : x \in ToSet(Tail(ssbq)) <=> x \in ToSet(ssbq) /\ x # Head(ssbq)
        BY <2>1, OnceInFacts
  <2> QED BY <2>1, <2>2, <2>3
<1>10. /\ ssbq' \in Seq(Object \cup {TICK}) /\ OnceIn(ssbq', Object)
       /\ \A x \in Object : x \in ToSet(ssbq') <=> x \in ToSet(ssbq) \/ x \in ToSet(fired)
  <2>1. PICK rest : rest = Tail(ssbq) OBVIOUS
  <2>2. fired \in Seq(Object \cup {TICK}) BY <1>7
  <2>3. \A x \in Object : x \notin ToSet(rest) \/ x \notin ToSet(fired)
    <3>1. SUFFICES ASSUME NEW x \in Object, x \in ToSet(ssbq), x \in ToSet(timq) PROVE FALSE
          BY <1>7, <1>9, <2>1
    <3> QED BY <3>1, <1>1 DEF Links, Linked
  <2>4. /\ rest \o fired \in Seq(Object \cup {TICK})
        /\ ToSet(rest \o fired) = ToSet(rest) \cup ToSet(fired)
    <3>1. rest \in Seq(Object \cup {TICK}) BY <1>9, <2>1
    <3> QED BY <2>2, <3>1, ConcatOnce
  <2>5. ToSet(rest) \cap ToSet(fired) \cap Object = {} BY <2>3
  <2>6. OnceIn(rest \o fired, Object)
    <3>1. rest \in Seq(Object \cup {TICK}) /\ OnceIn(rest, Object) /\ Once(fired)
          BY <1>7, <1>9, <2>1
    <3> QED BY <2>2, <2>5, <3>1, ConcatOnceIn
  <2> QED BY <2>1, <2>4, <2>6, <1>5, <1>9
<1>11. TypeOK'
  <2>1. systim' \in Stamp BY <1>3, <1>6
  <2> QED BY <2>1, <1>1, <1>5, <1>7, <1>8, <1>10 DEF TypeOK
(* What fires was on the timer queue. *)
<1>12. /\ \A x \in Object : x \in ToSet(fired) => Known(x) /\ Linked(x)
       /\ \A a \in Alm : a \in ToSet(fired) =>
             msts[a] = {"STA"} /\ msts'[a] = {"STA", "PND"} /\ a \notin Cyc
  <2>1. \A x \in Object : x \in ToSet(fired) => Known(x) /\ Linked(x)
        BY <1>1, <1>7 DEF Links
  <2>2. \A a \in Alm : a \in ToSet(fired) => msts[a] = {"STA"} BY <2>1 DEF Linked
  <2> QED BY <2>1, <2>2, <1>8
<1>13. Flags'
  <2>1. creating # NONE => creating \in Object /\ creating \notin ToSet(fired)
        BY <1>1, <1>12 DEF TypeOK, Known
  <2>2. creating # NONE => msts'[creating] = msts[creating] BY <2>1, <1>8
  <2>3. \A x \in Object : "RST" \in msts'[x] => "RST" \in msts[x] BY <1>8
  <2>4. \A a \in Alm : "RST" \in msts'[a] => msts'[a] = msts[a] BY <1>8, <1>12
  <2> QED BY <2>2, <2>3, <2>4, <1>1, <1>5 DEF Flags
<1>14. \A x \in Object : Known(x)' <=> Known(x) BY <1>5 DEF Known
<1>15. Links'
  <2>1. \A x \in Object : x \in ToSet(timq') <=> Known(x)' /\ Linked(x)'
    <3>1. TAKE x \in Object
    <3>2. CASE x \in ToSet(fired)
      <4>1. x \notin ToSet(timq')
        <5>1. Value(stime[x]) \in Nat /\ Value(now) \in Nat BY <1>2, <1>6, ValueType
        <5> QED BY <5>1, <3>2, <1>7
      <4>2. "PND" \in msts'[x] BY <3>2, <1>8
      <4> QED BY <4>1, <4>2 DEF Linked
    <3>3. CASE x \notin ToSet(fired)
      <4>1. x \in ToSet(timq') <=> x \in ToSet(timq)
        <5>1. Value(stime[x]) \in Nat /\ Value(now) \in Nat BY <1>2, <1>6, ValueType
        <5> QED BY <5>1, <3>3, <1>7
      <4>2. Linked(x)' <=> Linked(x) BY <3>3, <1>8 DEF Linked
      <4> QED BY <4>1, <4>2, <1>1, <1>14 DEF Links
    <3> QED BY <3>2, <3>3
  <2>2. \A x \in Object : x \in ToSet(ssbq') \/ x = cssb' <=> Known(x)' /\ "PND" \in msts'[x]
    <3>1. TAKE x \in Object
    <3>2. CASE x \in ToSet(fired)
      BY <3>2, <1>8, <1>10, <1>12, <1>14
    <3>3. CASE x \notin ToSet(fired)
      BY <3>3, <1>1, <1>5, <1>8, <1>10, <1>14 DEF Links
    <3> QED BY <3>2, <3>3
  <2>3. cssb' \notin ToSet(ssbq')
    <3>1. ToSet(ssbq') \subseteq Object \cup {TICK} BY <1>10, ToSetFacts
    <3> QED BY <3>1, <1>5
  <2> QED BY <2>1, <2>2, <2>3, <1>7, <1>10 DEF Links
<1>16. Timing'
  <2>1. ASSUME NEW c \in Cyc, Known(c)', Linked(c)' \/ "PND" \in msts'[c]
        PROVE  Value(stime'[c]) = due'[c]
    <3>1. CASE c \in ToSet(fired)
      BY <3>1, <1>1, <1>5, <1>12 DEF Timing
    <3>2. CASE c \notin ToSet(fired)
      <4>1. msts'[c] = msts[c] BY <3>2, <1>8
      <4>2. Known(c) /\ (Linked(c) \/ "PND" \in msts[c]) BY <4>1, <2>1, <1>14 DEF Linked
      <4> QED BY <4>2, <1>1, <1>5 DEF Timing
    <3> QED BY <3>1, <3>2
  <2>2. ASSUME NEW a \in Alm, Known(a)' PROVE AlarmTime(a)'
    <3>1. AlarmTime(a) /\ Known(a) BY <2>2, <1>1, <1>14 DEF Timing
    <3>2. PICK now0 \in Nat, now1 \in Nat, at \in Nat, by \in Nat, d \in Nat :
             /\ now0 = Value(systim) /\ now1 = Value(now) /\ at = Value(stime[a])
             /\ by = due[a] /\ d = stime[a].ltime
      <4>1. stime[a].ltime \in Nat BY <1>2 DEF Stamp
      <4> QED BY <4>1, <1>2, <1>6, ValueType
    <3>3. now1 >= now0 BY <3>2, <1>6
    <3>4. CASE a \in ToSet(fired)
      <4>1. msts[a] = {"STA"} /\ msts'[a] = {"STA", "PND"} BY <3>4, <1>12
      <4>2. at <= now1 BY <3>2, <3>4, <1>7
      <4>3. at = by \/ at > by BY <4>1, <3>1, <3>2 DEF AlarmTime
      <4>4. now1 >= by BY <4>2, <4>3
      <4>5. Value(systim') >= due'[a] BY <4>4, <3>2, <1>3, <1>5
      <4> QED BY <4>1, <4>5 DEF AlarmTime
    <3>5. CASE a \notin ToSet(fired)
      <4>1. msts'[a] = msts[a] BY <3>5, <1>8
      <4>2. msts[a] = {"STA"} => at > now1
        <5>1. SUFFICES ASSUME msts[a] = {"STA"} PROVE at > now1 OBVIOUS
        <5>2. a \in ToSet(timq) BY <5>1, <3>1, <1>1 DEF Links, Linked
        <5>3. ~(at <= now1) BY <5>2, <3>2, <3>5, <1>7
        <5> QED BY <5>3
      <4>3. {"STA", "PND"} \subseteq msts[a] => now1 >= by
        <5>1. {"STA", "PND"} \subseteq msts[a] => now0 >= by BY <3>1, <3>2 DEF AlarmTime
        <5> QED BY <5>1, <3>3
      <4>4. "RST" \in msts[a] => now1 + d >= by
        <5>1. "RST" \in msts[a] => now0 + d >= by BY <3>1, <3>2 DEF AlarmTime
        <5> QED BY <5>1, <3>3
      <4>5. now1 = Value(systim') /\ at = Value(stime'[a]) /\ by = due'[a] /\ d = stime'[a].ltime
            BY <3>2, <1>3, <1>5
      <4> QED BY <4>1, <4>2, <4>3, <4>4, <4>5, <3>1, <3>2, <1>5 DEF AlarmTime
    <3> QED BY <3>4, <3>5
  <2> QED BY <2>1, <2>2, <1>7 DEF Timing
<1>17. Wanted'
  <2>1. \A a \in want : Known(a)' BY <1>1, <1>5, <1>14 DEF Wanted, TypeOK
  <2>2. \A a \in want : msts[a] \subseteq msts'[a] BY <1>1, <1>8 DEF TypeOK
  <2>3. \A a \in want : {"STA", "RST"} \cap msts[a] # {} BY <1>1 DEF Wanted
  <2>4. \A a \in want : {"STA", "RST"} \cap msts'[a] # {} BY <2>2, <2>3
  <2> QED BY <2>1, <2>4, <1>5 DEF Wanted
<1> QED BY <1>11, <1>13, <1>15, <1>16, <1>17 DEF IInv

-----------------------------------------------------------------------------
(* The invariant is inductive.                                             *)
THEOREM NextHolds == IInv /\ [Next]_vars => IInv'
<1> SUFFICES ASSUME IInv, [Next]_vars PROVE IInv' OBVIOUS
<1>1. CASE \E a \in Alm : \/ \E d \in AlmTime : StaAlm(a, d)
                          \/ StpAlm(a) \/ CreAlm(a) \/ DelAlm(a)
  BY <1>1, StaAlmHolds, StpAlmHolds, CreAlmHolds, DelAlmHolds
<1>2. CASE \E c \in Cyc : StaCyc(c) \/ StpCyc(c) \/ CreCyc(c) \/ DelCyc(c)
  BY <1>2, StaCycHolds, StpCycHolds, CreCycHolds, DelCycHolds
<1>3. CASE CreCycStart BY <1>3, CreCycStartHolds
<1>4. CASE PostTick BY <1>4, PostTickHolds
<1>5. CASE SigTim BY <1>5, SigTimHolds
<1>6. CASE \E x \in Object : Skip(x) \/ CallHandler(x)
  BY <1>6, SkipHolds, CallHandlerHolds
<1>7. CASE HandlerReturns BY <1>7, HandlerReturnsHolds
<1>8. CASE UNCHANGED vars
  <2>1. UNCHANGED <<systim, timq, ssbq, cssb, created, creating, msts, stime, due,
                    deferred, want>>
        BY <1>8 DEF vars
  <2>2. TypeOK' BY <2>1 DEF IInv, TypeOK
  <2>3. Flags' BY <2>1 DEF IInv, Flags
  <2>4. Links' BY <2>1 DEF IInv, Links, Known, Linked
  <2>5. Timing' BY <2>1 DEF IInv, Timing, Known, Linked, AlarmTime
  <2>6. Wanted' BY <2>1 DEF IInv, Wanted, Known
  <2> QED BY <2>2, <2>3, <2>4, <2>5, <2>6 DEF IInv
<1> QED BY <1>1, <1>2, <1>3, <1>4, <1>5, <1>6, <1>7, <1>8 DEF Next

THEOREM Invariance == Spec => []IInv
BY InitHolds, NextHolds, PTL DEF Spec

(* Every variable keeps its type: no service leaves a block with flags it  *)
(* cannot have or a time that is not one.                                  *)
THEOREM TypeCorrect == Spec => []TypeOK
<1>1. IInv => TypeOK BY DEF IInv
<1> QED BY <1>1, Invariance, PTL

(* The number of times that x is in q, when it can be there once at most.  *)
LEMMA TimesOnce ==
    ASSUME NEW T, NEW q \in Seq(T), NEW x,
           \A i, j \in 1..Len(q) : q[i] = q[j] /\ q[i] = x => i = j
    PROVE  Times(q, x) = IF x \in ToSet(q) THEN 1 ELSE 0
<1> DEFINE I == {i \in 1..Len(q) : q[i] = x}
<1>1. CASE x \in ToSet(q)
  <2>1. PICK k \in 1..Len(q) : q[k] = x BY <1>1, ToSetFacts
  <2>2. I = {k} BY <2>1
  <2>3. Cardinality(I) = 1 BY <2>2, FS_Singleton
  <2> QED BY <2>3, <1>1 DEF Times
<1>2. CASE x \notin ToSet(q)
  <2>1. I = {} BY <1>2, ToSetFacts
  <2>2. Cardinality(I) = 0 BY <2>1, FS_EmptySet
  <2> QED BY <2>2, <1>2 DEF Times
<1> QED BY <1>1, <1>2

(* A block is on the timer queue once, or waits for service or is being    *)
(* served once, or is in no list, exactly as its flags say.                *)
THEOREM LinksCorrect == Spec => []LinksMatchFlags
<1>1. ASSUME IInv PROVE LinksMatchFlags
  <2> USE Constants
  <2>1. TypeOK /\ Links BY <1>1 DEF IInv
  <2>2. ASSUME NEW x \in Object PROVE Times(timq, x) = IF Known(x) /\ Linked(x) THEN 1 ELSE 0
    <3>1. timq \in Seq(Object) /\ \A i, j \in 1..Len(timq) : timq[i] = timq[j] => i = j
          BY <2>1 DEF TypeOK, Links, Once
    <3>2. Times(timq, x) = IF x \in ToSet(timq) THEN 1 ELSE 0
          BY <3>1, TimesOnce
    <3> QED BY <3>2, <2>1 DEF Links
  <2>3. ASSUME NEW x \in Object
        PROVE  Times(Append(ssbq, cssb), x) = IF Known(x) /\ "PND" \in msts[x] THEN 1 ELSE 0
    <3> DEFINE T == Object \cup {TICK, NONE}
    <3>1. ssbq \in Seq(T) /\ cssb \in T BY <2>1 DEF TypeOK
    <3>2. PICK q : q = Append(ssbq, cssb) OBVIOUS
    <3>3. q \in Seq(T) /\ ToSet(q) = ToSet(ssbq) \cup {cssb} BY <3>1, <3>2, AppendOnce
    <3>4. OnceIn(q, Object) BY <3>1, <3>2, <2>1, OnceInFacts DEF Links
    <3>5. \A i, j \in 1..Len(q) : q[i] = q[j] /\ q[i] = x => i = j BY <3>4 DEF OnceIn
    <3>6. Times(q, x) = IF x \in ToSet(q) THEN 1 ELSE 0 BY <3>3, <3>5, TimesOnce
    <3> QED BY <3>2, <3>3, <3>6, <2>1 DEF Links
  <2> QED BY <2>2, <2>3 DEF LinksMatchFlags, Known, Linked
<1> QED BY <1>1, Invariance, PTL

(* The timer queue is in the order of the times across every carry, and    *)
(* what is on it is due when the calls that were made say.                 *)
THEOREM PunctualAlways == Spec => []Punctual
<1>1. ASSUME IInv PROVE Punctual
  <2> USE Constants
  <2>1. TypeOK /\ Links /\ Timing BY <1>1 DEF IInv
  <2>2. \A i, j \in 1..Len(timq) : i < j => Value(stime[timq[i]]) <= Value(stime[timq[j]])
        BY <2>1 DEF Timing, InTime
  <2>3. ASSUME NEW x \in Object, Contains(timq, x)
        PROVE  \/ Value(stime[x]) = due[x]
               \/ x \in deferred /\ Value(stime[x]) > due[x]
    <3>1. x \in ToSet(timq) BY <2>1, <2>3, ToSetFacts DEF TypeOK
    <3>2. Known(x) /\ Linked(x) BY <3>1, <2>1 DEF Links
    <3>3. CASE x \in Cyc BY <3>2, <3>3, <2>1 DEF Timing
    <3>4. CASE x \in Alm
      <4>1. msts[x] = {"STA"} BY <3>2, <3>4 DEF Linked
      <4> QED BY <4>1, <3>2, <3>4, <2>1 DEF Timing, AlarmTime
    <3> QED BY <3>3, <3>4
  <2> QED BY <2>2, <2>3 DEF Punctual
<1> QED BY <1>1, Invariance, PTL

(* An alarm that was started fires or is stopped: until then it is armed,  *)
(* and in the future once the posted ticks are served.                     *)
THEOREM AlarmKept == Spec => []AlarmNotLost
<1>1. ASSUME IInv PROVE AlarmNotLost
  <2> USE Constants
  <2>1. TypeOK /\ Flags /\ Links /\ Timing /\ Wanted BY <1>1 DEF IInv
  <2>2. ASSUME NEW a \in want
        PROVE  /\ {"STA", "RST"} \cap msts[a] # {}
               /\ cssb = NONE /\ ssbq = <<>> => Contains(timq, a) /\ Value(stime[a]) > Value(systim)
    <3>1. a \in Alm /\ a \in Object /\ a \notin Cyc BY <2>1, <2>2 DEF TypeOK
    <3>2. Known(a) /\ {"STA", "RST"} \cap msts[a] # {} BY <2>1, <2>2 DEF Wanted
    <3>3. ASSUME cssb = NONE, ssbq = <<>>
          PROVE  Contains(timq, a) /\ Value(stime[a]) > Value(systim)
      <4>1. "PND" \notin msts[a] BY <1>1, <3>1, <3>2, <3>3, NothingPending DEF AtTask
      <4>2. msts[a] \subseteq {"STA", "PND", "RST"} BY <2>1, <3>1 DEF TypeOK
      <4>3. "RST" \notin msts[a] BY <4>1, <2>1, <3>1 DEF Flags
      <4>4. msts[a] = {"STA"} BY <3>2, <4>1, <4>2, <4>3
      <4>5. a \in ToSet(timq) BY <4>4, <2>1, <3>1, <3>2 DEF Links, Linked
      <4>6. Contains(timq, a) BY <4>5, <2>1, ToSetFacts DEF TypeOK
      <4> QED BY <4>4, <4>6, <2>1, <3>1, <3>2 DEF Timing, AlarmTime
    <3> QED BY <3>2, <3>3
  <2> QED BY <2>2 DEF AlarmNotLost
<1> QED BY <1>1, Invariance, PTL

(* No alarm handler is called before its time. *)
THEOREM NeverEarly == Spec => NotEarly
<1>1. ASSUME IInv, [Next]_vars, NEW a \in Alm, CallHandler(a) PROVE Value(systim) >= due[a]
  <2>1. Known(a) /\ "PND" \in msts[a] /\ "STA" \in msts[a]
        BY <1>1, Constants, ServedFacts DEF CallHandler
  <2>2. AlarmTime(a) BY <1>1, <2>1 DEF IInv, Timing
  <2> QED BY <2>1, <2>2 DEF AlarmTime
<1>2. IInv /\ [Next]_vars => [\A a \in Alm : CallHandler(a) => Value(systim) >= due[a]]_vars
      BY <1>1
<1> QED BY <1>2, Invariance, PTL DEF Spec, NotEarly
=============================================================================
