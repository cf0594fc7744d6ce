---------------------------- MODULE GrammarProofs ----------------------------
(***************************************************************************)
(* Proofs about the two grammars: the words of each rule consist of        *)
(* symbols that may be visited where the children of the rule are, however *)
(* often its parts are repeated.                                           *)
(***************************************************************************)
EXTENDS FrontendContexts, SequenceTheorems, FiniteSetTheorems,
        WellFoundedInduction, TLAPS

(* What the parts of a rule are made of, its words are made of.             *)
W(n) == INSTANCE Words WITH MaxRepeat <- n

WordsOver(S) == SUBSET Seq(S)

LEMMA Least ==
  ASSUME NEW K, K \subseteq Nat, K # {}
  PROVE  \E k \in K : \A j \in K : ~ (j < k)
<1>1. IsWellFoundedOn(OpToRel(<, Nat), Nat)
  BY NatLessThanWellFounded
<1>2. PICK k \in K : \A j \in K : ~ (<<j, k>> \in OpToRel(<, Nat))
  BY <1>1, WFMin
<1>3. ASSUME NEW j \in K, j < k PROVE FALSE
  <2>1. <<j, k>> \in OpToRel(<, Nat)
    BY <1>3 DEF OpToRel
  <2>. QED BY <2>1, <1>2
<1>. QED BY <1>3

LEMMA ConcatStays ==
  ASSUME NEW n, NEW S, NEW L \in WordsOver(S), NEW M \in WordsOver(S)
  PROVE  W(n)!++(L, M) \in WordsOver(S)
<1>. SUFFICES ASSUME NEW w \in W(n)!++(L, M) PROVE w \in Seq(S)
  BY DEF WordsOver
<1>1. PICK u \in L : \E v \in M : w = u \o v
  BY DEF W!++
<1>2. PICK v \in M : w = u \o v
  BY <1>1
<1>3. u \in Seq(S) /\ v \in Seq(S)
  BY DEF WordsOver
<1>. QED BY <1>2, <1>3

(* The function that Repeated defines by recursion exists.                  *)
Repeats(n, L, m, f) ==
  f = [k \in 0..m |-> IF k = 0 THEN {<<>>} ELSE W(n)!++(f[k - 1], L)]

LEMMA RepeatsExist ==
  ASSUME NEW n, NEW L, NEW m \in Nat
  PROVE  \E f : Repeats(n, L, m, f)
<1>. DEFINE K == {k \in Nat : ~ \E f : Repeats(n, L, k, f)}
<1>. SUFFICES ASSUME K # {} PROVE FALSE
  OBVIOUS
<1>1. PICK k \in K : \A j \in K : ~ (j < k)
  BY Least
<1>2. CASE k = 0
  <2>. DEFINE f == [i \in 0..0 |-> {<<>>}]
  <2>1. Repeats(n, L, 0, f)
    BY DEF Repeats
  <2>. QED BY <2>1, <1>2
<1>3. CASE k # 0
  <2>1. k - 1 \in Nat /\ k - 1 < k /\ k \in Nat
    BY <1>3
  <2>2. PICK f : Repeats(n, L, k - 1, f)
    BY <2>1, <1>1
  <2>. DEFINE g == [i \in 0..k |-> IF i = k THEN W(n)!++(f[k - 1], L) ELSE f[i]]
              h == [i \in 0..k |-> IF i = 0 THEN {<<>>} ELSE W(n)!++(g[i - 1], L)]
  <2>3. \A i \in 0..k : g[i] = h[i]
    <3>. SUFFICES ASSUME NEW i \in 0..k PROVE g[i] = h[i]
      OBVIOUS
    <3>1. CASE i = k
      <4>1. g[i - 1] = f[k - 1]
        BY <3>1, <2>1
      <4>2. g[i] = W(n)!++(f[k - 1], L) /\ h[i] = W(n)!++(g[i - 1], L)
        BY <3>1, <2>1, <1>3
      <4>. QED BY <4>1, <4>2, <3>1
    <3>2. CASE i # k
      <4>1. i \in 0..(k - 1) /\ g[i] = f[i]
        BY <3>2, <2>1
      <4>2. f[i] = IF i = 0 THEN {<<>>} ELSE W(n)!++(f[i - 1], L)
        BY <4>1, <2>2 DEF Repeats
      <4>3. i # 0 => g[i - 1] = f[i - 1]
        BY <4>1, <2>1
      <4>. QED BY <4>1, <4>2, <4>3
    <3>. QED BY <3>1, <3>2
  <2>4. g = h
    BY <2>3
  <2>5. Repeats(n, L, k, g)
    BY <2>4 DEF Repeats
  <2>. QED BY <2>5
<1>. QED BY <1>2, <1>3

LEMMA RepeatedStays ==
  ASSUME NEW n \in Nat, NEW S, NEW L \in WordsOver(S), NEW lo \in Nat
  PROVE  W(n)!Repeated(L, lo) \in WordsOver(S)
<1>. DEFINE times == CHOOSE f : Repeats(n, L, n, f)
<1>1. Repeats(n, L, n, times)
  BY RepeatsExist
<1>2. W(n)!Repeated(L, lo) = UNION {times[k] : k \in lo..n}
  BY Zenon DEF W!Repeated, Repeats
<1>. HIDE DEF times
<1>3. \A k \in 0..n : times[k] \in WordsOver(S)
  <2>. DEFINE K == {k \in 0..n : times[k] \notin WordsOver(S)}
  <2>. SUFFICES ASSUME K # {} PROVE FALSE
    OBVIOUS
  <2>0. K \subseteq Nat /\ K # {}
    OBVIOUS
  <2>1. PICK k \in K : \A j \in K : ~ (j < k)
    BY <2>0, Least, Zenon
  <2>2. k # 0
    <3>1. times[0] = {<<>>}
      BY <1>1 DEF Repeats
    <3>2. <<>> \in Seq(S)
      OBVIOUS
    <3>. QED BY <3>1, <3>2 DEF WordsOver
  <2>3. k - 1 \in 0..n /\ k - 1 < k
    BY <2>2
  <2>4. times[k - 1] \in WordsOver(S)
    BY <2>1, <2>3
  <2>5. times[k] = W(n)!++(times[k - 1], L)
    BY <1>1, <2>2 DEF Repeats
  <2>. QED BY <2>4, <2>5, ConcatStays
<1>4. \A w \in W(n)!Repeated(L, lo) : w \in Seq(S)
  <2>. SUFFICES ASSUME NEW w \in W(n)!Repeated(L, lo) PROVE w \in Seq(S)
    OBVIOUS
  <2>1. PICK k \in lo..n : w \in times[k]
    BY <1>2
  <2>2. k \in 0..n
    OBVIOUS
  <2>. QED BY <2>1, <2>2, <1>3 DEF WordsOver
<1>. QED BY <1>4 DEF WordsOver

(* Every word of a grammar is over the symbols of its parts: what it takes  *)
(* to see this for a rule.                                                  *)
Closed(n, S) ==
  /\ \A L, M \in WordsOver(S) :
       W(n)!++(L, M) \in WordsOver(S) /\ (L \cup M) \in WordsOver(S)
  /\ \A L \in WordsOver(S) :
       /\ W(n)!Opt(L) \in WordsOver(S)
       /\ W(n)!Some(L) \in WordsOver(S) /\ W(n)!Many(L) \in WordsOver(S)
  /\ \A C \in SUBSET S : W(n)!OneOf(C) \in WordsOver(S)
  /\ \A a \in S : {<<a>>} \in WordsOver(S)
  /\ \A a, b \in S : {<<a, b>>} \in WordsOver(S)
  /\ \A a, b, c \in S : {<<a, b, c>>} \in WordsOver(S)
  /\ \A a, b, c, d \in S : {<<a, b, c, d>>} \in WordsOver(S)
  /\ \A a, b, c, d, e \in S : {<<a, b, c, d, e>>} \in WordsOver(S)
  /\ \A a, b, c, d, e, f \in S : {<<a, b, c, d, e, f>>} \in WordsOver(S)

LEMMA AllClosed ==
  ASSUME NEW n \in Nat, NEW S
  PROVE  Closed(n, S)
<1>1. \A L, M \in WordsOver(S) :
        W(n)!++(L, M) \in WordsOver(S) /\ (L \cup M) \in WordsOver(S)
  BY ConcatStays DEF WordsOver
<1>2. \A L \in WordsOver(S) : W(n)!Opt(L) \in WordsOver(S)
  <2>1. <<>> \in Seq(S)
    OBVIOUS
  <2>. QED BY <2>1 DEF WordsOver, W!Opt
<1>3. \A L \in WordsOver(S) :
        W(n)!Some(L) \in WordsOver(S) /\ W(n)!Many(L) \in WordsOver(S)
  BY RepeatedStays DEF W!Some, W!Many
<1>4. \A C \in SUBSET S : W(n)!OneOf(C) \in WordsOver(S)
  <2>1. \A s \in S : <<s>> \in Seq(S)
    OBVIOUS
  <2>. QED BY <2>1 DEF WordsOver, W!OneOf
<1>5. \A a \in S : {<<a>>} \in WordsOver(S)
  BY DEF WordsOver
<1>6. \A a, b \in S : {<<a, b>>} \in WordsOver(S)
  BY DEF WordsOver
<1>7. \A a, b, c \in S : {<<a, b, c>>} \in WordsOver(S)
  BY DEF WordsOver
<1>8. \A a, b, c, d \in S : {<<a, b, c, d>>} \in WordsOver(S)
  BY DEF WordsOver
<1>9. \A a, b, c, d, e \in S : {<<a, b, c, d, e>>} \in WordsOver(S)
  BY DEF WordsOver
<1>10. \A a, b, c, d, e, f \in S : {<<a, b, c, d, e, f>>} \in WordsOver(S)
  BY DEF WordsOver
<1>. QED BY <1>1, <1>2, <1>3, <1>4, <1>5, <1>6, <1>7, <1>8, <1>9, <1>10
        DEF Closed
-----------------------------------------------------------------------------
LEMMA EldoParts ==
  ASSUME NEW n
  PROVE  /\ \A L, M : EldoUpTo(n)!++(L, M) = W(n)!++(L, M)
         /\ \A L : /\ EldoUpTo(n)!Opt(L) = W(n)!Opt(L)
                  /\ EldoUpTo(n)!OneOf(L) = W(n)!OneOf(L)
                  /\ EldoUpTo(n)!Some(L) = W(n)!Some(L)
                  /\ EldoUpTo(n)!Many(L) = W(n)!Many(L)
<1>1. \A L, M : EldoUpTo(n)!++(L, M) = W(n)!++(L, M)
  BY DEF EldoUpTo!++, W!++
<1>2. \A L : EldoUpTo(n)!Opt(L) = W(n)!Opt(L)
  BY DEF EldoUpTo!Opt, W!Opt
<1>3. \A L : EldoUpTo(n)!OneOf(L) = W(n)!OneOf(L)
  BY DEF EldoUpTo!OneOf, W!OneOf
<1>4. \A L, lo : EldoUpTo(n)!Repeated(L, lo) = W(n)!Repeated(L, lo)
  BY DEF EldoUpTo!Repeated, W!Repeated, EldoUpTo!++, W!++
<1>5. \A L : /\ EldoUpTo(n)!Some(L) = W(n)!Some(L)
             /\ EldoUpTo(n)!Many(L) = W(n)!Many(L)
  BY <1>4 DEF EldoUpTo!Some, EldoUpTo!Many, W!Some, W!Many
<1>. QED BY <1>1, <1>2, <1>3, <1>5
ClosedEldo(n, S) ==
  /\ \A L, M \in WordsOver(S) :
       EldoUpTo(n)!++(L, M) \in WordsOver(S) /\ (L \cup M) \in WordsOver(S)
  /\ \A L \in WordsOver(S) :
       /\ EldoUpTo(n)!Opt(L) \in WordsOver(S)
       /\ EldoUpTo(n)!Some(L) \in WordsOver(S) /\ EldoUpTo(n)!Many(L) \in WordsOver(S)
  /\ \A C \in SUBSET S : EldoUpTo(n)!OneOf(C) \in WordsOver(S)
  /\ \A a \in S : {<<a>>} \in WordsOver(S)
  /\ \A a, b \in S : {<<a, b>>} \in WordsOver(S)
  /\ \A a, b, c \in S : {<<a, b, c>>} \in WordsOver(S)
  /\ \A a, b, c, d \in S : {<<a, b, c, d>>} \in WordsOver(S)
  /\ \A a, b, c, d, e \in S : {<<a, b, c, d, e>>} \in WordsOver(S)
  /\ \A a, b, c, d, e, f \in S : {<<a, b, c, d, e, f>>} \in WordsOver(S)
LEMMA EldoClosed ==
  ASSUME NEW n \in Nat, NEW S
  PROVE  ClosedEldo(n, S)
<1>1. Closed(n, S)
  BY AllClosed
<1>2. \A L, M \in WordsOver(S) :
       EldoUpTo(n)!++(L, M) \in WordsOver(S) /\ (L \cup M) \in WordsOver(S)
  BY <1>1, EldoParts DEF Closed
<1>3. \A L \in WordsOver(S) :
       /\ EldoUpTo(n)!Opt(L) \in WordsOver(S)
       /\ EldoUpTo(n)!Some(L) \in WordsOver(S) /\ EldoUpTo(n)!Many(L) \in WordsOver(S)
  BY <1>1, EldoParts DEF Closed
<1>4. \A C \in SUBSET S : EldoUpTo(n)!OneOf(C) \in WordsOver(S)
  BY <1>1, EldoParts DEF Closed
<1>. QED BY <1>1, <1>2, <1>3, <1>4 DEF Closed, ClosedEldo

(* Whatever is on top when the children of a context of r are visited, each *)
(* of them may be visited with it.                                          *)
EldoSuits(n, r) ==
  \E S : /\ EldoUpTo(n)!Rules[r] \in WordsOver(S)
         /\ \A s \in S : EldoInside(r) \subseteq EldoHome(s)

LEMMA SpectreParts ==
  ASSUME NEW n
  PROVE  /\ \A L, M : SpectreUpTo(n)!++(L, M) = W(n)!++(L, M)
         /\ \A L : /\ SpectreUpTo(n)!Opt(L) = W(n)!Opt(L)
                  /\ SpectreUpTo(n)!OneOf(L) = W(n)!OneOf(L)
                  /\ SpectreUpTo(n)!Some(L) = W(n)!Some(L)
                  /\ SpectreUpTo(n)!Many(L) = W(n)!Many(L)
<1>1. \A L, M : SpectreUpTo(n)!++(L, M) = W(n)!++(L, M)
  BY DEF SpectreUpTo!++, W!++
<1>2. \A L : SpectreUpTo(n)!Opt(L) = W(n)!Opt(L)
  BY DEF SpectreUpTo!Opt, W!Opt
<1>3. \A L : SpectreUpTo(n)!OneOf(L) = W(n)!OneOf(L)
  BY DEF SpectreUpTo!OneOf, W!OneOf
<1>4. \A L, lo : SpectreUpTo(n)!Repeated(L, lo) = W(n)!Repeated(L, lo)
  BY DEF SpectreUpTo!Repeated, W!Repeated, SpectreUpTo!++, W!++
<1>5. \A L : /\ SpectreUpTo(n)!Some(L) = W(n)!Some(L)
             /\ SpectreUpTo(n)!Many(L) = W(n)!Many(L)
  BY <1>4 DEF SpectreUpTo!Some, SpectreUpTo!Many, W!Some, W!Many
<1>. QED BY <1>1, <1>2, <1>3, <1>5
ClosedSpectre(n, S) ==
  /\ \A L, M \in WordsOver(S) :
       SpectreUpTo(n)!++(L, M) \in WordsOver(S) /\ (L \cup M) \in WordsOver(S)
  /\ \A L \in WordsOver(S) :
       /\ SpectreUpTo(n)!Opt(L) \in WordsOver(S)
       /\ SpectreUpTo(n)!Some(L) \in WordsOver(S) /\ SpectreUpTo(n)!Many(L) \in WordsOver(S)
  /\ \A C \in SUBSET S : SpectreUpTo(n)!OneOf(C) \in WordsOver(S)
  /\ \A a \in S : {<<a>>} \in WordsOver(S)
  /\ \A a, b \in S : {<<a, b>>} \in WordsOver(S)
  /\ \A a, b, c \in S : {<<a, b, c>>} \in WordsOver(S)
  /\ \A a, b, c, d \in S : {<<a, b, c, d>>} \in WordsOver(S)
  /\ \A a, b, c, d, e \in S : {<<a, b, c, d, e>>} \in WordsOver(S)
  /\ \A a, b, c, d, e, f \in S : {<<a, b, c, d, e, f>>} \in WordsOver(S)
LEMMA SpectreClosed ==
  ASSUME NEW n \in Nat, NEW S
  PROVE  ClosedSpectre(n, S)
<1>1. Closed(n, S)
  BY AllClosed
<1>2. \A L, M \in WordsOver(S) :
       SpectreUpTo(n)!++(L, M) \in WordsOver(S) /\ (L \cup M) \in WordsOver(S)
  BY <1>1, SpectreParts DEF Closed
<1>3. \A L \in WordsOver(S) :
       /\ SpectreUpTo(n)!Opt(L) \in WordsOver(S)
       /\ SpectreUpTo(n)!Some(L) \in WordsOver(S) /\ SpectreUpTo(n)!Many(L) \in WordsOver(S)
  BY <1>1, SpectreParts DEF Closed
<1>4. \A C \in SUBSET S : SpectreUpTo(n)!OneOf(C) \in WordsOver(S)
  BY <1>1, SpectreParts DEF Closed
<1>. QED BY <1>1, <1>2, <1>3, <1>4 DEF Closed, ClosedSpectre

(* Whatever is on top when the children of a context of r are visited, each *)
(* of them may be visited with it.                                          *)
SpectreSuits(n, r) ==
  \E S : /\ SpectreUpTo(n)!Rules[r] \in WordsOver(S)
         /\ \A s \in S : SpectreInside(r) \subseteq SpectreHome(s)
-----------------------------------------------------------------------------
(* The words of Eldo.                                                       *)
LEMMA EldoWords1 ==
  ASSUME NEW n \in Nat
  PROVE  \A r \in {"netlist_title", "standard_include", "verilog_include",
            "dspf_include", "subckt_footer", "ac_parameter_driven",
            "ac_data_driven", "ac_list_driven", "ac_adaptive", "age",
            "checksoa", "dc_component_analysis", "dc_source_analysis",
            "dc_temperature_analysis", "dc_parameter_analysis",
            "dc_data_driven_analysis", "dchiz", "dcmismatch", "dex", "dsp"} :
           EldoSuits(n, r)
<1>. DEFINE T == {"AGE", "CHECKSOA", "DCHIZ", "DCMISMATCH", "DEX", "DSP",
                 "DSPF_INCLUDE", "EQUAL", "ID", "INCLUDE", "NUMBER", "PARAM",
                 "SUBCKT_END", "TEMP", "VERILOG", "end_of_line", "filepath",
                 "parameter", "parameter_list"}
            S == T
<1>0. \A r \in {"netlist_title", "standard_include", "verilog_include",
          "dspf_include", "subckt_footer", "ac_parameter_driven",
          "ac_data_driven", "ac_list_driven", "ac_adaptive", "age",
          "checksoa", "dc_component_analysis", "dc_source_analysis",
          "dc_temperature_analysis", "dc_parameter_analysis",
          "dc_data_driven_analysis", "dchiz", "dcmismatch", "dex", "dsp"} :
        EldoInside(r) \subseteq EldoParameterHomes
  BY DEF EldoInside, EldoHome, EldoStatements, EldoLibraryParts,
         EldoLibraryDefParts, EldoSubcktParts, EldoAlterParts, EldoAnalyses,
         EldoComponents, EldoControls, EldoModelParts, EldoParameters,
         EldoParameterParts, EldoNodes, EldoExpressions, EldoScopes,
         EldoParameterHomes, EldoNodeHomes, EldoExpressionHomes, Classes,
         V!Values
<1>1. \A s \in T : EldoParameterHomes \subseteq EldoHome(s)
  BY DEF EldoHome, EldoStatements, EldoLibraryParts, EldoLibraryDefParts,
         EldoSubcktParts, EldoAlterParts, EldoAnalyses, EldoComponents,
         EldoControls, EldoModelParts, EldoParameters, EldoParameterParts,
         EldoNodes, EldoExpressions, EldoScopes, EldoParameterHomes,
         EldoNodeHomes, EldoExpressionHomes, Classes, V!Values
<1>2. ClosedEldo(n, S) /\ T \subseteq S
  BY EldoClosed
<1>. HIDE DEF S
<1>3. EldoUpTo(n)!netlist_title \in WordsOver(S)
  BY <1>2 DEF ClosedEldo, EldoUpTo!netlist_title
<1>4. EldoUpTo(n)!standard_include \in WordsOver(S)
  BY <1>2 DEF ClosedEldo, EldoUpTo!standard_include
<1>5. EldoUpTo(n)!verilog_include \in WordsOver(S)
  BY <1>2 DEF ClosedEldo, EldoUpTo!verilog_include
<1>6. EldoUpTo(n)!dspf_include \in WordsOver(S)
  BY <1>2 DEF ClosedEldo, EldoUpTo!dspf_include
<1>7. EldoUpTo(n)!subckt_footer \in WordsOver(S)
  BY <1>2 DEF ClosedEldo, EldoUpTo!subckt_footer
<1>8. EldoUpTo(n)!ac_parameter_driven \in WordsOver(S)
  BY <1>2 DEF ClosedEldo, EldoUpTo!ac_parameter_driven
<1>9. EldoUpTo(n)!ac_data_driven \in WordsOver(S)
  BY <1>2 DEF ClosedEldo, EldoUpTo!ac_data_driven
<1>10. EldoUpTo(n)!ac_list_driven \in WordsOver(S)
  BY <1>2 DEF ClosedEldo, EldoUpTo!ac_list_driven
<1>11. EldoUpTo(n)!ac_adaptive \in WordsOver(S)
  BY <1>2 DEF ClosedEldo, EldoUpTo!ac_adaptive
<1>12. EldoUpTo(n)!age \in WordsOver(S)
  BY <1>2 DEF ClosedEldo, EldoUpTo!age
<1>13. EldoUpTo(n)!checksoa \in WordsOver(S)
  BY <1>2 DEF ClosedEldo, EldoUpTo!checksoa
<1>14. EldoUpTo(n)!dc_component_analysis \in WordsOver(S)
  BY <1>2 DEF ClosedEldo, EldoUpTo!dc_component_analysis
<1>15. EldoUpTo(n)!dc_source_analysis \in WordsOver(S)
  BY <1>2 DEF ClosedEldo, EldoUpTo!dc_source_analysis
<1>16. EldoUpTo(n)!dc_temperature_analysis \in WordsOver(S)
  BY <1>2 DEF ClosedEldo, EldoUpTo!dc_temperature_analysis
<1>17. EldoUpTo(n)!dc_parameter_analysis \in WordsOver(S)
  BY <1>2 DEF ClosedEldo, EldoUpTo!dc_parameter_analysis
<1>18. EldoUpTo(n)!dc_data_driven_analysis \in WordsOver(S)
  BY <1>2 DEF ClosedEldo, EldoUpTo!dc_data_driven_analysis
<1>19. EldoUpTo(n)!dchiz \in WordsOver(S)
  BY <1>2 DEF ClosedEldo, EldoUpTo!dchiz
<1>20. EldoUpTo(n)!dcmismatch \in WordsOver(S)
  BY <1>2 DEF ClosedEldo, EldoUpTo!dcmismatch
<1>21. EldoUpTo(n)!dex \in WordsOver(S)
  BY <1>2 DEF ClosedEldo, EldoUpTo!dex
<1>22. EldoUpTo(n)!dsp \in WordsOver(S)
  BY <1>2 DEF ClosedEldo, EldoUpTo!dsp
<1>23. /\ EldoUpTo(n)!Rules["netlist_title"] = EldoUpTo(n)!netlist_title
       /\ EldoUpTo(n)!Rules["standard_include"] = EldoUpTo(n)!standard_include
       /\ EldoUpTo(n)!Rules["verilog_include"] = EldoUpTo(n)!verilog_include
       /\ EldoUpTo(n)!Rules["dspf_include"] = EldoUpTo(n)!dspf_include
       /\ EldoUpTo(n)!Rules["subckt_footer"] = EldoUpTo(n)!subckt_footer
       /\ EldoUpTo(n)!Rules["ac_parameter_driven"] = EldoUpTo(n)!ac_parameter_driven
       /\ EldoUpTo(n)!Rules["ac_data_driven"] = EldoUpTo(n)!ac_data_driven
       /\ EldoUpTo(n)!Rules["ac_list_driven"] = EldoUpTo(n)!ac_list_driven
       /\ EldoUpTo(n)!Rules["ac_adaptive"] = EldoUpTo(n)!ac_adaptive
       /\ EldoUpTo(n)!Rules["age"] = EldoUpTo(n)!age
       /\ EldoUpTo(n)!Rules["checksoa"] = EldoUpTo(n)!checksoa
       /\ EldoUpTo(n)!Rules["dc_component_analysis"] = EldoUpTo(n)!dc_component_analysis
       /\ EldoUpTo(n)!Rules["dc_source_analysis"] = EldoUpTo(n)!dc_source_analysis
       /\ EldoUpTo(n)!Rules["dc_temperature_analysis"] = EldoUpTo(n)!dc_temperature_analysis
       /\ EldoUpTo(n)!Rules["dc_parameter_analysis"] = EldoUpTo(n)!dc_parameter_analysis
       /\ EldoUpTo(n)!Rules["dc_data_driven_analysis"] = EldoUpTo(n)!dc_data_driven_analysis
       /\ EldoUpTo(n)!Rules["dchiz"] = EldoUpTo(n)!dchiz
       /\ EldoUpTo(n)!Rules["dcmismatch"] = EldoUpTo(n)!dcmismatch
       /\ EldoUpTo(n)!Rules["dex"] = EldoUpTo(n)!dex
       /\ EldoUpTo(n)!Rules["dsp"] = EldoUpTo(n)!dsp
  BY ZenonT(90) DEF EldoUpTo!Rules
<1>. QED BY <1>0, <1>1, <1>3, <1>4, <1>5, <1>6, <1>7, <1>8, <1>9, <1>10,
       <1>11, <1>12, <1>13, <1>14, <1>15, <1>16, <1>17, <1>18, <1>19, <1>20,
       <1>21, <1>22, <1>23 DEF S, EldoSuits

LEMMA EldoWords2 ==
  ASSUME NEW n \in Nat
  PROVE  \A r \in {"dspmod", "four", "lstb", "mc", "noise", "noisetran",
            "op_time_based", "op_dc_based", "optfour", "optimize",
            "optnoise", "pz", "ramp", "sens", "sensac", "sensparam", "snf",
            "solve_parameter", "solve_object", "solve_component"} :
           EldoSuits(n, r)
<1>. DEFINE T == {"DSPMOD", "FOUR", "ID", "LSTB", "MC", "NOISE", "NOISETRAN",
                 "NUMBER", "OPTFOUR", "OPTIMIZE", "OPTNOISE", "PARAM", "PZ",
                 "RAMP", "SENS", "SENSAC", "SENSPARAM", "SNF", "end_of_line",
                 "filepath", "parameter", "parameter_list"}
            S == T
<1>0. \A r \in {"dspmod", "four", "lstb", "mc", "noise", "noisetran",
          "op_time_based", "op_dc_based", "optfour", "optimize", "optnoise",
          "pz", "ramp", "sens", "sensac", "sensparam", "snf",
          "solve_parameter", "solve_object", "solve_component"} :
        EldoInside(r) \subseteq EldoParameterHomes
  BY DEF EldoInside, EldoHome, EldoStatements, EldoLibraryParts,
         EldoLibraryDefParts, EldoSubcktParts, EldoAlterParts, EldoAnalyses,
         EldoComponents, EldoControls, EldoModelParts, EldoParameters,
         EldoParameterParts, EldoNodes, EldoExpressions, EldoScopes,
         EldoParameterHomes, EldoNodeHomes, EldoExpressionHomes, Classes,
         V!Values
<1>1. \A s \in T : EldoParameterHomes \subseteq EldoHome(s)
  BY DEF EldoHome, EldoStatements, EldoLibraryParts, EldoLibraryDefParts,
         EldoSubcktParts, EldoAlterParts, EldoAnalyses, EldoComponents,
         EldoControls, EldoModelParts, EldoParameters, EldoParameterParts,
         EldoNodes, EldoExpressions, EldoScopes, EldoParameterHomes,
         EldoNodeHomes, EldoExpressionHomes, Classes, V!Values
<1>2. ClosedEldo(n, S) /\ T \subseteq S
  BY EldoClosed
<1>. HIDE DEF S
<1>3. EldoUpTo(n)!dspmod \in WordsOver(S)
  BY <1>2 DEF ClosedEldo, EldoUpTo!dspmod
<1>4. EldoUpTo(n)!four \in WordsOver(S)
  BY <1>2 DEF ClosedEldo, EldoUpTo!four
<1>5. EldoUpTo(n)!lstb \in WordsOver(S)
  BY <1>2 DEF ClosedEldo, EldoUpTo!lstb
<1>6. EldoUpTo(n)!mc \in WordsOver(S)
  BY <1>2 DEF ClosedEldo, EldoUpTo!mc
<1>7. EldoUpTo(n)!noise \in WordsOver(S)
  BY <1>2 DEF ClosedEldo, EldoUpTo!noise
<1>8. EldoUpTo(n)!noisetran \in WordsOver(S)
  BY <1>2 DEF ClosedEldo, EldoUpTo!noisetran
<1>9. EldoUpTo(n)!op_time_based \in WordsOver(S)
  BY <1>2 DEF ClosedEldo, EldoUpTo!op_time_based
<1>10. EldoUpTo(n)!op_dc_based \in WordsOver(S)
  BY <1>2 DEF ClosedEldo, EldoUpTo!op_dc_based
<1>11. EldoUpTo(n)!optfour \in WordsOver(S)
  BY <1>2 DEF ClosedEldo, EldoUpTo!optfour
<1>12. EldoUpTo(n)!optimize \in WordsOver(S)
  BY <1>2 DEF ClosedEldo, EldoUpTo!optimize
<1>13. EldoUpTo(n)!optnoise \in WordsOver(S)
  BY <1>2 DEF ClosedEldo, EldoUpTo!optnoise
<1>14. EldoUpTo(n)!pz \in WordsOver(S)
  BY <1>2 DEF ClosedEldo, EldoUpTo!pz
<1>15. EldoUpTo(n)!ramp \in WordsOver(S)
  BY <1>2 DEF ClosedEldo, EldoUpTo!ramp
<1>16. EldoUpTo(n)!sens \in WordsOver(S)
  BY <1>2 DEF ClosedEldo, EldoUpTo!sens
<1>17. EldoUpTo(n)!sensac \in WordsOver(S)
  BY <1>2 DEF ClosedEldo, EldoUpTo!sensac
<1>18. EldoUpTo(n)!sensparam \in WordsOver(S)
  BY <1>2 DEF ClosedEldo, EldoUpTo!sensparam
<1>19. EldoUpTo(n)!snf \in WordsOver(S)
  BY <1>2 DEF ClosedEldo, EldoUpTo!snf
<1>20. EldoUpTo(n)!solve_parameter \in WordsOver(S)
  BY <1>2 DEF ClosedEldo, EldoUpTo!solve_parameter
<1>21. EldoUpTo(n)!solve_object \in WordsOver(S)
  BY <1>2 DEF ClosedEldo, EldoUpTo!solve_object
<1>22. EldoUpTo(n)!solve_component \in WordsOver(S)
  BY <1>2 DEF ClosedEldo, EldoUpTo!solve_component
<1>23. /\ EldoUpTo(n)!Rules["dspmod"] = EldoUpTo(n)!dspmod
       /\ EldoUpTo(n)!Rules["four"] = EldoUpTo(n)!four
       /\ EldoUpTo(n)!Rules["lstb"] = EldoUpTo(n)!lstb
       /\ EldoUpTo(n)!Rules["mc"] = EldoUpTo(n)!mc
       /\ EldoUpTo(n)!Rules["noise"] = EldoUpTo(n)!noise
       /\ EldoUpTo(n)!Rules["noisetran"] = EldoUpTo(n)!noisetran
       /\ EldoUpTo(n)!Rules["op_time_based"] = EldoUpTo(n)!op_time_based
       /\ EldoUpTo(n)!Rules["op_dc_based"] = EldoUpTo(n)!op_dc_based
       /\ EldoUpTo(n)!Rules["optfour"] = EldoUpTo(n)!optfour
       /\ EldoUpTo(n)!Rules["optimize"] = EldoUpTo(n)!optimize
       /\ EldoUpTo(n)!Rules["optnoise"] = EldoUpTo(n)!optnoise
       /\ EldoUpTo(n)!Rules["pz"] = EldoUpTo(n)!pz
       /\ EldoUpTo(n)!Rules["ramp"] = EldoUpTo(n)!ramp
       /\ EldoUpTo(n)!Rules["sens"] = EldoUpTo(n)!sens
       /\ EldoUpTo(n)!Rules["sensac"] = EldoUpTo(n)!sensac
       /\ EldoUpTo(n)!Rules["sensparam"] = EldoUpTo(n)!sensparam
       /\ EldoUpTo(n)!Rules["snf"] = EldoUpTo(n)!snf
       /\ EldoUpTo(n)!Rules["solve_parameter"] = EldoUpTo(n)!solve_parameter
       /\ EldoUpTo(n)!Rules["solve_object"] = EldoUpTo(n)!solve_object
       /\ EldoUpTo(n)!Rules["solve_component"] = EldoUpTo(n)!solve_component
  BY ZenonT(90) DEF EldoUpTo!Rules
<1>. QED BY <1>0, <1>1, <1>3, <1>4, <1>5, <1>6, <1>7, <1>8, <1>9, <1>10,
       <1>11, <1>12, <1>13, <1>14, <1>15, <1>16, <1>17, <1>18, <1>19, <1>20,
       <1>21, <1>22, <1>23 DEF S, EldoSuits

LEMMA EldoWords3 ==
  ASSUME NEW n \in Nat
  PROVE  \A r \in {"tf", "tran_point_driven", "tran_data_driven", "wcase",
            "extract", "model_lib", "model_name", "model_master",
            "model_lib_type", "alter_header", "save_file", "save_when",
            "option", "nodeset", "call_tcl_when", "use_tcl", "defmac",
            "chrent_pair", "ic_subckt", "print"} :
           EldoSuits(n, r)
<1>. DEFINE T == {"ALTER", "DEFMAC", "EQUAL", "EXTRACT", "ID", "NODESET",
                 "NUMBER", "OPT", "OPTION", "PRINT", "SUBCKT", "TF",
                 "USE_TCL", "WCASE", "WHEN", "end_of_line", "filepath",
                 "parameter", "parameter_list"}
            S == T
<1>0. \A r \in {"tf", "tran_point_driven", "tran_data_driven", "wcase",
          "extract", "model_lib", "model_name", "model_master",
          "model_lib_type", "alter_header", "save_file", "save_when",
          "option", "nodeset", "call_tcl_when", "use_tcl", "defmac",
          "chrent_pair", "ic_subckt", "print"} :
        EldoInside(r) \subseteq EldoParameterHomes
  BY DEF EldoInside, EldoHome, EldoStatements, EldoLibraryParts,
         EldoLibraryDefParts, EldoSubcktParts, EldoAlterParts, EldoAnalyses,
         EldoComponents, EldoControls, EldoModelParts, EldoParameters,
         EldoParameterParts, EldoNodes, EldoExpressions, EldoScopes,
         EldoParameterHomes, EldoNodeHomes, EldoExpressionHomes, Classes,
         V!Values
<1>1. \A s \in T : EldoParameterHomes \subseteq EldoHome(s)
  BY DEF EldoHome, EldoStatements, EldoLibraryParts, EldoLibraryDefParts,
         EldoSubcktParts, EldoAlterParts, EldoAnalyses, EldoComponents,
         EldoControls, EldoModelParts, EldoParameters, EldoParameterParts,
         EldoNodes, EldoExpressions, EldoScopes, EldoParameterHomes,
         EldoNodeHomes, EldoExpressionHomes, Classes, V!Values
<1>2. ClosedEldo(n, S) /\ T \subseteq S
  BY EldoClosed
<1>. HIDE DEF S
<1>3. EldoUpTo(n)!tf \in WordsOver(S)
  BY <1>2 DEF ClosedEldo, EldoUpTo!tf
<1>4. EldoUpTo(n)!tran_point_driven \in WordsOver(S)
  BY <1>2 DEF ClosedEldo, EldoUpTo!tran_point_driven
<1>5. EldoUpTo(n)!tran_data_driven \in WordsOver(S)
  BY <1>2 DEF ClosedEldo, EldoUpTo!tran_data_driven
<1>6. EldoUpTo(n)!wcase \in WordsOver(S)
  BY <1>2 DEF ClosedEldo, EldoUpTo!wcase
<1>7. EldoUpTo(n)!extract \in WordsOver(S)
  BY <1>2 DEF ClosedEldo, EldoUpTo!extract
<1>8. EldoUpTo(n)!model_lib \in WordsOver(S)
  BY <1>2 DEF ClosedEldo, EldoUpTo!model_lib
<1>9. EldoUpTo(n)!model_name \in WordsOver(S)
  BY <1>2 DEF ClosedEldo, EldoUpTo!model_name
<1>10. EldoUpTo(n)!model_master \in WordsOver(S)
  BY <1>2 DEF ClosedEldo, EldoUpTo!model_master
<1>11. EldoUpTo(n)!model_lib_type \in WordsOver(S)
  BY <1>2 DEF ClosedEldo, EldoUpTo!model_lib_type
<1>12. EldoUpTo(n)!alter_header \in WordsOver(S)
  BY <1>2 DEF ClosedEldo, EldoUpTo!alter_header
<1>13. EldoUpTo(n)!save_file \in WordsOver(S)
  BY <1>2 DEF ClosedEldo, EldoUpTo!save_file
<1>14. EldoUpTo(n)!save_when \in WordsOver(S)
  <2>1. {"ID", "parameter"} \in SUBSET S
    BY <1>2
  <2>. QED BY <1>2, <2>1 DEF ClosedEldo, EldoUpTo!save_when
<1>15. EldoUpTo(n)!option \in WordsOver(S)
  <2>1. {"OPTION", "OPT"} \in SUBSET S
    BY <1>2
  <2>. QED BY <1>2, <2>1 DEF ClosedEldo, EldoUpTo!option
<1>16. EldoUpTo(n)!nodeset \in WordsOver(S)
  BY <1>2 DEF ClosedEldo, EldoUpTo!nodeset
<1>17. EldoUpTo(n)!call_tcl_when \in WordsOver(S)
  BY <1>2 DEF ClosedEldo, EldoUpTo!call_tcl_when
<1>18. EldoUpTo(n)!use_tcl \in WordsOver(S)
  BY <1>2 DEF ClosedEldo, EldoUpTo!use_tcl
<1>19. EldoUpTo(n)!defmac \in WordsOver(S)
  BY <1>2 DEF ClosedEldo, EldoUpTo!defmac
<1>20. EldoUpTo(n)!chrent_pair \in WordsOver(S)
  BY <1>2 DEF ClosedEldo, EldoUpTo!chrent_pair
<1>21. EldoUpTo(n)!ic_subckt \in WordsOver(S)
  BY <1>2 DEF ClosedEldo, EldoUpTo!ic_subckt
<1>22. EldoUpTo(n)!print \in WordsOver(S)
  BY <1>2 DEF ClosedEldo, EldoUpTo!print
<1>23. /\ EldoUpTo(n)!Rules["tf"] = EldoUpTo(n)!tf
       /\ EldoUpTo(n)!Rules["tran_point_driven"] = EldoUpTo(n)!tran_point_driven
       /\ EldoUpTo(n)!Rules["tran_data_driven"] = EldoUpTo(n)!tran_data_driven
       /\ EldoUpTo(n)!Rules["wcase"] = EldoUpTo(n)!wcase
       /\ EldoUpTo(n)!Rules["extract"] = EldoUpTo(n)!extract
       /\ EldoUpTo(n)!Rules["model_lib"] = EldoUpTo(n)!model_lib
       /\ EldoUpTo(n)!Rules["model_name"] = EldoUpTo(n)!model_name
       /\ EldoUpTo(n)!Rules["model_master"] = EldoUpTo(n)!model_master
       /\ EldoUpTo(n)!Rules["model_lib_type"] = EldoUpTo(n)!model_lib_type
       /\ EldoUpTo(n)!Rules["alter_header"] = EldoUpTo(n)!alter_header
       /\ EldoUpTo(n)!Rules["save_file"] = EldoUpTo(n)!save_file
       /\ EldoUpTo(n)!Rules["save_when"] = EldoUpTo(n)!save_when
       /\ EldoUpTo(n)!Rules["option"] = EldoUpTo(n)!option
       /\ EldoUpTo(n)!Rules["nodeset"] = EldoUpTo(n)!nodeset
       /\ EldoUpTo(n)!Rules["call_tcl_when"] = EldoUpTo(n)!call_tcl_when
       /\ EldoUpTo(n)!Rules["use_tcl"] = EldoUpTo(n)!use_tcl
       /\ EldoUpTo(n)!Rules["defmac"] = EldoUpTo(n)!defmac
       /\ EldoUpTo(n)!Rules["chrent_pair"] = EldoUpTo(n)!chrent_pair
       /\ EldoUpTo(n)!Rules["ic_subckt"] = EldoUpTo(n)!ic_subckt
       /\ EldoUpTo(n)!Rules["print"] = EldoUpTo(n)!print
  BY ZenonT(90) DEF EldoUpTo!Rules
<1>. QED BY <1>0, <1>1, <1>3, <1>4, <1>5, <1>6, <1>7, <1>8, <1>9, <1>10,
       <1>11, <1>12, <1>13, <1>14, <1>15, <1>16, <1>17, <1>18, <1>19, <1>20,
       <1>21, <1>22, <1>23 DEF S, EldoSuits

LEMMA EldoWords4 ==
  ASSUME NEW n \in Nat
  PROVE  \A r \in {"plot", "ffile_tabulation", "ffile_singleline",
            "ffile_unit", "ffile_storage_format", "probe", "defwave", "temp",
            "meas_info", "meas_vect", "meas_catvect", "meas_label_name",
            "meas_trig", "meas_targ", "global_declarations",
            "component_parameter_list", "component_positional_keywork",
            "interp_type", "coupled_inductor", "lossy_transmission_line"} :
           EldoSuits(n, r)
<1>. DEFINE T == {"CATVECT", "COUPLED_INDUCTOR", "DEFWAVE", "EQUAL",
                 "GENERIC_LIST_START", "GLOBAL_PARAM", "ID", "INTERP",
                 "LOSSY_TRANSMISSION_LINE", "NOISE", "NUMBER",
                 "PARAM_LIST_START", "PLOT", "PROBE", "TARG", "TEMP_SET",
                 "TRIG", "VECT", "end_of_line", "parameter",
                 "parameter_list"}
            S == T
<1>0. \A r \in {"plot", "ffile_tabulation", "ffile_singleline", "ffile_unit",
          "ffile_storage_format", "probe", "defwave", "temp", "meas_info",
          "meas_vect", "meas_catvect", "meas_label_name", "meas_trig",
          "meas_targ", "global_declarations", "component_parameter_list",
          "component_positional_keywork", "interp_type", "coupled_inductor",
          "lossy_transmission_line"} :
        EldoInside(r) \subseteq EldoParameterHomes
  BY DEF EldoInside, EldoHome, EldoStatements, EldoLibraryParts,
         EldoLibraryDefParts, EldoSubcktParts, EldoAlterParts, EldoAnalyses,
         EldoComponents, EldoControls, EldoModelParts, EldoParameters,
         EldoParameterParts, EldoNodes, EldoExpressions, EldoScopes,
         EldoParameterHomes, EldoNodeHomes, EldoExpressionHomes, Classes,
         V!Values
<1>1. \A s \in T : EldoParameterHomes \subseteq EldoHome(s)
  BY DEF EldoHome, EldoStatements, EldoLibraryParts, EldoLibraryDefParts,
         EldoSubcktParts, EldoAlterParts, EldoAnalyses, EldoComponents,
         EldoControls, EldoModelParts, EldoParameters, EldoParameterParts,
         EldoNodes, EldoExpressions, EldoScopes, EldoParameterHomes,
         EldoNodeHomes, EldoExpressionHomes, Classes, V!Values
<1>2. ClosedEldo(n, S) /\ T \subseteq S
  BY EldoClosed
<1>. HIDE DEF S
<1>3. EldoUpTo(n)!plot \in WordsOver(S)
  BY <1>2 DEF ClosedEldo, EldoUpTo!plot
<1>4. EldoUpTo(n)!ffile_tabulation \in WordsOver(S)
  BY <1>2 DEF ClosedEldo, EldoUpTo!ffile_tabulation
<1>5. EldoUpTo(n)!ffile_singleline \in WordsOver(S)
  BY <1>2 DEF ClosedEldo, EldoUpTo!ffile_singleline
<1>6. EldoUpTo(n)!ffile_unit \in WordsOver(S)
  BY <1>2 DEF ClosedEldo, EldoUpTo!ffile_unit
<1>7. EldoUpTo(n)!ffile_storage_format \in WordsOver(S)
  BY <1>2 DEF ClosedEldo, EldoUpTo!ffile_storage_format
<1>8. EldoUpTo(n)!probe \in WordsOver(S)
  BY <1>2 DEF ClosedEldo, EldoUpTo!probe
<1>9. EldoUpTo(n)!defwave \in WordsOver(S)
  BY <1>2 DEF ClosedEldo, EldoUpTo!defwave
<1>10. EldoUpTo(n)!temp \in WordsOver(S)
  BY <1>2 DEF ClosedEldo, EldoUpTo!temp
<1>11. EldoUpTo(n)!meas_info \in WordsOver(S)
  BY <1>2 DEF ClosedEldo, EldoUpTo!meas_info
<1>12. EldoUpTo(n)!meas_vect \in WordsOver(S)
  BY <1>2 DEF ClosedEldo, EldoUpTo!meas_vect
<1>13. EldoUpTo(n)!meas_catvect \in WordsOver(S)
  BY <1>2 DEF ClosedEldo, EldoUpTo!meas_catvect
<1>14. EldoUpTo(n)!meas_label_name \in WordsOver(S)
  BY <1>2 DEF ClosedEldo, EldoUpTo!meas_label_name
<1>15. EldoUpTo(n)!meas_trig \in WordsOver(S)
  BY <1>2 DEF ClosedEldo, EldoUpTo!meas_trig
<1>16. EldoUpTo(n)!meas_targ \in WordsOver(S)
  BY <1>2 DEF ClosedEldo, EldoUpTo!meas_targ
<1>17. EldoUpTo(n)!global_declarations \in WordsOver(S)
  BY <1>2 DEF ClosedEldo, EldoUpTo!global_declarations
<1>18. EldoUpTo(n)!component_parameter_list \in WordsOver(S)
  <2>1. {"PARAM_LIST_START", "GENERIC_LIST_START"} \in SUBSET S
    BY <1>2
  <2>2. {"PARAM_LIST_START", "GENERIC_LIST_START"} \in SUBSET S
    BY <1>2
  <2>. QED BY <1>2, <2>1, <2>2 DEF ClosedEldo, EldoUpTo!component_parameter_list
<1>19. EldoUpTo(n)!component_positional_keywork \in WordsOver(S)
  BY <1>2 DEF ClosedEldo, EldoUpTo!component_positional_keywork
<1>20. EldoUpTo(n)!interp_type \in WordsOver(S)
  BY <1>2 DEF ClosedEldo, EldoUpTo!interp_type
<1>21. EldoUpTo(n)!coupled_inductor \in WordsOver(S)
  BY <1>2 DEF ClosedEldo, EldoUpTo!coupled_inductor
<1>22. EldoUpTo(n)!lossy_transmission_line \in WordsOver(S)
  BY <1>2 DEF ClosedEldo, EldoUpTo!lossy_transmission_line
<1>23. /\ EldoUpTo(n)!Rules["plot"] = EldoUpTo(n)!plot
       /\ EldoUpTo(n)!Rules["ffile_tabulation"] = EldoUpTo(n)!ffile_tabulation
       /\ EldoUpTo(n)!Rules["ffile_singleline"] = EldoUpTo(n)!ffile_singleline
       /\ EldoUpTo(n)!Rules["ffile_unit"] = EldoUpTo(n)!ffile_unit
       /\ EldoUpTo(n)!Rules["ffile_storage_format"] = EldoUpTo(n)!ffile_storage_format
       /\ EldoUpTo(n)!Rules["probe"] = EldoUpTo(n)!probe
       /\ EldoUpTo(n)!Rules["defwave"] = EldoUpTo(n)!defwave
       /\ EldoUpTo(n)!Rules["temp"] = EldoUpTo(n)!temp
       /\ EldoUpTo(n)!Rules["meas_info"] = EldoUpTo(n)!meas_info
       /\ EldoUpTo(n)!Rules["meas_vect"] = EldoUpTo(n)!meas_vect
       /\ EldoUpTo(n)!Rules["meas_catvect"] = EldoUpTo(n)!meas_catvect
       /\ EldoUpTo(n)!Rules["meas_label_name"] = EldoUpTo(n)!meas_label_name
       /\ EldoUpTo(n)!Rules["meas_trig"] = EldoUpTo(n)!meas_trig
       /\ EldoUpTo(n)!Rules["meas_targ"] = EldoUpTo(n)!meas_targ
       /\ EldoUpTo(n)!Rules["global_declarations"] = EldoUpTo(n)!global_declarations
       /\ EldoUpTo(n)!Rules["component_parameter_list"] = EldoUpTo(n)!component_parameter_list
       /\ EldoUpTo(n)!Rules["component_positional_keywork"] = EldoUpTo(n)!component_positional_keywork
       /\ EldoUpTo(n)!Rules["interp_type"] = EldoUpTo(n)!interp_type
       /\ EldoUpTo(n)!Rules["coupled_inductor"] = EldoUpTo(n)!coupled_inductor
       /\ EldoUpTo(n)!Rules["lossy_transmission_line"] = EldoUpTo(n)!lossy_transmission_line
  BY ZenonT(90) DEF EldoUpTo!Rules
<1>. QED BY <1>0, <1>1, <1>3, <1>4, <1>5, <1>6, <1>7, <1>8, <1>9, <1>10,
       <1>11, <1>12, <1>13, <1>14, <1>15, <1>16, <1>17, <1>18, <1>19, <1>20,
       <1>21, <1>22, <1>23 DEF S, EldoSuits

LEMMA EldoWords5 ==
  ASSUME NEW n \in Nat
  PROVE  \A r \in {"ltl_w_model", "ltl_u_model", "noise_function",
            "parameter_list", "parameter_list_item"} :
           EldoSuits(n, r)
<1>. DEFINE T == {"CLOSE_ROUND", "LTL_U_MODEL", "LTL_W_MODEL", "NOISE",
                 "OPEN_ROUND", "PARAM_LIST_START", "parameter",
                 "parameter_list_item"}
            S == T
<1>0. \A r \in {"ltl_w_model", "ltl_u_model", "noise_function",
          "parameter_list", "parameter_list_item"} :
        EldoInside(r) \subseteq EldoParameterHomes
  BY DEF EldoInside, EldoHome, EldoStatements, EldoLibraryParts,
         EldoLibraryDefParts, EldoSubcktParts, EldoAlterParts, EldoAnalyses,
         EldoComponents, EldoControls, EldoModelParts, EldoParameters,
         EldoParameterParts, EldoNodes, EldoExpressions, EldoScopes,
         EldoParameterHomes, EldoNodeHomes, EldoExpressionHomes, Classes,
         V!Values
<1>1. \A s \in T : EldoParameterHomes \subseteq EldoHome(s)
  BY DEF EldoHome, EldoStatements, EldoLibraryParts, EldoLibraryDefParts,
         EldoSubcktParts, EldoAlterParts, EldoAnalyses, EldoComponents,
         EldoControls, EldoModelParts, EldoParameters, EldoParameterParts,
         EldoNodes, EldoExpressions, EldoScopes, EldoParameterHomes,
         EldoNodeHomes, EldoExpressionHomes, Classes, V!Values
<1>2. ClosedEldo(n, S) /\ T \subseteq S
  BY EldoClosed
<1>. HIDE DEF S
<1>3. EldoUpTo(n)!ltl_w_model \in WordsOver(S)
  BY <1>2 DEF ClosedEldo, EldoUpTo!ltl_w_model
<1>4. EldoUpTo(n)!ltl_u_model \in WordsOver(S)
  BY <1>2 DEF ClosedEldo, EldoUpTo!ltl_u_model
<1>5. EldoUpTo(n)!noise_function \in WordsOver(S)
  BY <1>2 DEF ClosedEldo, EldoUpTo!noise_function
<1>6. EldoUpTo(n)!parameter_list \in WordsOver(S)
  BY <1>2 DEF ClosedEldo, EldoUpTo!parameter_list
<1>7. EldoUpTo(n)!parameter_list_item \in WordsOver(S)
  BY <1>2 DEF ClosedEldo, EldoUpTo!parameter_list_item
<1>8. /\ EldoUpTo(n)!Rules["ltl_w_model"] = EldoUpTo(n)!ltl_w_model
      /\ EldoUpTo(n)!Rules["ltl_u_model"] = EldoUpTo(n)!ltl_u_model
      /\ EldoUpTo(n)!Rules["noise_function"] = EldoUpTo(n)!noise_function
      /\ EldoUpTo(n)!Rules["parameter_list"] = EldoUpTo(n)!parameter_list
      /\ EldoUpTo(n)!Rules["parameter_list_item"] = EldoUpTo(n)!parameter_list_item
  BY ZenonT(90) DEF EldoUpTo!Rules
<1>. QED BY <1>0, <1>1, <1>3, <1>4, <1>5, <1>6, <1>7, <1>8 DEF S, EldoSuits

LEMMA EldoWords6 ==
  ASSUME NEW n \in Nat
  PROVE  \A r \in {"subckt_header", "global", "meas_find", "meas_at",
            "meas_when", "meas_derivative", "meas_param", "connect",
            "component_value", "component_analysis", "component_pin_list",
            "component_port_list", "component_net_list",
            "component_coupling_list", "component_table",
            "component_value_list", "resistor", "capacitor", "inductor",
            "diffusion_resistor"} :
           EldoSuits(n, r)
<1>. DEFINE T == {"AC", "AT", "CAPACITOR", "CLOSE_CURLY", "CLOSE_ROUND",
                 "COMMA", "CONNECT", "COUPLING_LIST_START", "DC",
                 "DERIVATIVE", "DIFFUSION_RESISTOR", "EQUAL", "EXP", "FIND",
                 "GLOBAL", "ID", "INDUCTOR", "NET_LIST_START", "OPEN_CURLY",
                 "OPEN_ROUND", "PARAM", "PARAM_LIST_START", "PIN_LIST_START",
                 "PORT_LIST_START", "PULSE", "PWL", "RESISTOR", "SFFM",
                 "SIN", "STRING", "SUBCKT", "TABLE", "WHEN", "end_of_line",
                 "expression", "expression_list", "node", "node_list",
                 "parameter_list"}
            S == T
<1>0. \A r \in {"subckt_header", "global", "meas_find", "meas_at",
          "meas_when", "meas_derivative", "meas_param", "connect",
          "component_value", "component_analysis", "component_pin_list",
          "component_port_list", "component_net_list",
          "component_coupling_list", "component_table",
          "component_value_list", "resistor", "capacitor", "inductor",
          "diffusion_resistor"} :
        EldoInside(r) \subseteq EldoNodeHomes
  BY DEF EldoInside, EldoHome, EldoStatements, EldoLibraryParts,
         EldoLibraryDefParts, EldoSubcktParts, EldoAlterParts, EldoAnalyses,
         EldoComponents, EldoControls, EldoModelParts, EldoParameters,
         EldoParameterParts, EldoNodes, EldoExpressions, EldoScopes,
         EldoParameterHomes, EldoNodeHomes, EldoExpressionHomes, Classes,
         V!Values
<1>1. \A s \in T : EldoNodeHomes \subseteq EldoHome(s)
  BY DEF EldoHome, EldoStatements, EldoLibraryParts, EldoLibraryDefParts,
         EldoSubcktParts, EldoAlterParts, EldoAnalyses, EldoComponents,
         EldoControls, EldoModelParts, EldoParameters, EldoParameterParts,
         EldoNodes, EldoExpressions, EldoScopes, EldoParameterHomes,
         EldoNodeHomes, EldoExpressionHomes, Classes, V!Values
<1>2. ClosedEldo(n, S) /\ T \subseteq S
  BY EldoClosed
<1>. HIDE DEF S
<1>3. EldoUpTo(n)!subckt_header \in WordsOver(S)
  BY <1>2 DEF ClosedEldo, EldoUpTo!subckt_header
<1>4. EldoUpTo(n)!global \in WordsOver(S)
  BY <1>2 DEF ClosedEldo, EldoUpTo!global
<1>5. EldoUpTo(n)!meas_find \in WordsOver(S)
  BY <1>2 DEF ClosedEldo, EldoUpTo!meas_find
<1>6. EldoUpTo(n)!meas_at \in WordsOver(S)
  BY <1>2 DEF ClosedEldo, EldoUpTo!meas_at
<1>7. EldoUpTo(n)!meas_when \in WordsOver(S)
  BY <1>2 DEF ClosedEldo, EldoUpTo!meas_when
<1>8. EldoUpTo(n)!meas_derivative \in WordsOver(S)
  BY <1>2 DEF ClosedEldo, EldoUpTo!meas_derivative
<1>9. EldoUpTo(n)!meas_param \in WordsOver(S)
  BY <1>2 DEF ClosedEldo, EldoUpTo!meas_param
<1>10. EldoUpTo(n)!connect \in WordsOver(S)
  BY <1>2 DEF ClosedEldo, EldoUpTo!connect
<1>11. EldoUpTo(n)!component_value \in WordsOver(S)
  <2>1. {"STRING", "expression"} \in SUBSET S
    BY <1>2
  <2>2. {"STRING", "expression"} \in SUBSET S
    BY <1>2
  <2>. QED BY <1>2, <2>1, <2>2 DEF ClosedEldo, EldoUpTo!component_value
<1>12. EldoUpTo(n)!component_analysis \in WordsOver(S)
  <2>1. {"AC", "DC"} \in SUBSET S
    BY <1>2
  <2>2. {"AC", "DC"} \in SUBSET S
    BY <1>2
  <2>. QED BY <1>2, <2>1, <2>2 DEF ClosedEldo, EldoUpTo!component_analysis
<1>13. EldoUpTo(n)!component_pin_list \in WordsOver(S)
  BY <1>2 DEF ClosedEldo, EldoUpTo!component_pin_list
<1>14. EldoUpTo(n)!component_port_list \in WordsOver(S)
  BY <1>2 DEF ClosedEldo, EldoUpTo!component_port_list
<1>15. EldoUpTo(n)!component_net_list \in WordsOver(S)
  BY <1>2 DEF ClosedEldo, EldoUpTo!component_net_list
<1>16. EldoUpTo(n)!component_coupling_list \in WordsOver(S)
  BY <1>2 DEF ClosedEldo, EldoUpTo!component_coupling_list
<1>17. EldoUpTo(n)!component_table \in WordsOver(S)
  BY <1>2 DEF ClosedEldo, EldoUpTo!component_table
<1>18. EldoUpTo(n)!component_value_list \in WordsOver(S)
  <2>1. {"PWL", "SIN", "SFFM", "PULSE", "EXP"} \in SUBSET S
    BY <1>2
  <2>. QED BY <1>2, <2>1 DEF ClosedEldo, EldoUpTo!component_value_list
<1>19. EldoUpTo(n)!resistor \in WordsOver(S)
  BY <1>2 DEF ClosedEldo, EldoUpTo!resistor
<1>20. EldoUpTo(n)!capacitor \in WordsOver(S)
  BY <1>2 DEF ClosedEldo, EldoUpTo!capacitor
<1>21. EldoUpTo(n)!inductor \in WordsOver(S)
  BY <1>2 DEF ClosedEldo, EldoUpTo!inductor
<1>22. EldoUpTo(n)!diffusion_resistor \in WordsOver(S)
  BY <1>2 DEF ClosedEldo, EldoUpTo!diffusion_resistor
<1>23. /\ EldoUpTo(n)!Rules["subckt_header"] = EldoUpTo(n)!subckt_header
       /\ EldoUpTo(n)!Rules["global"] = EldoUpTo(n)!global
       /\ EldoUpTo(n)!Rules["meas_find"] = EldoUpTo(n)!meas_find
       /\ EldoUpTo(n)!Rules["meas_at"] = EldoUpTo(n)!meas_at
       /\ EldoUpTo(n)!Rules["meas_when"] = EldoUpTo(n)!meas_when
       /\ EldoUpTo(n)!Rules["meas_derivative"] = EldoUpTo(n)!meas_derivative
       /\ EldoUpTo(n)!Rules["meas_param"] = EldoUpTo(n)!meas_param
       /\ EldoUpTo(n)!Rules["connect"] = EldoUpTo(n)!connect
       /\ EldoUpTo(n)!Rules["component_value"] = EldoUpTo(n)!component_value
       /\ EldoUpTo(n)!Rules["component_analysis"] = EldoUpTo(n)!component_analysis
       /\ EldoUpTo(n)!Rules["component_pin_list"] = EldoUpTo(n)!component_pin_list
       /\ EldoUpTo(n)!Rules["component_port_list"] = EldoUpTo(n)!component_port_list
       /\ EldoUpTo(n)!Rules["component_net_list"] = EldoUpTo(n)!component_net_list
       /\ EldoUpTo(n)!Rules["component_coupling_list"] = EldoUpTo(n)!component_coupling_list
       /\ EldoUpTo(n)!Rules["component_table"] = EldoUpTo(n)!component_table
       /\ EldoUpTo(n)!Rules["component_value_list"] = EldoUpTo(n)!component_value_list
       /\ EldoUpTo(n)!Rules["resistor"] = EldoUpTo(n)!resistor
       /\ EldoUpTo(n)!Rules["capacitor"] = EldoUpTo(n)!capacitor
       /\ EldoUpTo(n)!Rules["inductor"] = EldoUpTo(n)!inductor
       /\ EldoUpTo(n)!Rules["diffusion_resistor"] = EldoUpTo(n)!diffusion_resistor
  BY ZenonT(90) DEF EldoUpTo!Rules
<1>. QED BY <1>0, <1>1, <1>3, <1>4, <1>5, <1>6, <1>7, <1>8, <1>9, <1>10,
       <1>11, <1>12, <1>13, <1>14, <1>15, <1>16, <1>17, <1>18, <1>19, <1>20,
       <1>21, <1>22, <1>23 DEF S, EldoSuits

LEMMA EldoWords7 ==
  ASSUME NEW n \in Nat
  PROVE  \A r \in {"transmission_line", "junction_diode", "bjt", "jfet",
            "mosfet", "subckt_instance", "ivsource", "icsource", "vcvs",
            "cccs", "vccs", "ccvs", "sw", "operational_amplifier",
            "two_input_gate", "node_list", "node_list_item", "node_mapping"}
            :
           EldoSuits(n, r)
<1>. DEFINE T == {"BJT", "CCCS", "CCVS", "CLOSE_ROUND", "COLON", "COMMA",
                 "DIG_AND", "DIG_NAND", "DIG_NOR", "DIG_OR", "DIG_XOR",
                 "EQUAL", "ICSOURCE", "ID", "IVSOURCE", "JFET",
                 "JUNCTION_DIODE", "MOD", "MODEL", "MOSFET", "OPA",
                 "OPEN_ROUND", "SUBCK_INSTANCE", "SW", "TRANSMISSION_LINE",
                 "VCCS", "VCVS", "expression_atom", "node", "node_list",
                 "node_list_item", "node_mapping", "parameter_list"}
            S == T
<1>0. \A r \in {"transmission_line", "junction_diode", "bjt", "jfet",
          "mosfet", "subckt_instance", "ivsource", "icsource", "vcvs",
          "cccs", "vccs", "ccvs", "sw", "operational_amplifier",
          "two_input_gate", "node_list", "node_list_item", "node_mapping"} :
        EldoInside(r) \subseteq EldoNodeHomes
  BY DEF EldoInside, EldoHome, EldoStatements, EldoLibraryParts,
         EldoLibraryDefParts, EldoSubcktParts, EldoAlterParts, EldoAnalyses,
         EldoComponents, EldoControls, EldoModelParts, EldoParameters,
         EldoParameterParts, EldoNodes, EldoExpressions, EldoScopes,
         EldoParameterHomes, EldoNodeHomes, EldoExpressionHomes, Classes,
         V!Values
<1>1. \A s \in T : EldoNodeHomes \subseteq EldoHome(s)
  BY DEF EldoHome, EldoStatements, EldoLibraryParts, EldoLibraryDefParts,
         EldoSubcktParts, EldoAlterParts, EldoAnalyses, EldoComponents,
         EldoControls, EldoModelParts, EldoParameters, EldoParameterParts,
         EldoNodes, EldoExpressions, EldoScopes, EldoParameterHomes,
         EldoNodeHomes, EldoExpressionHomes, Classes, V!Values
<1>2. ClosedEldo(n, S) /\ T \subseteq S
  BY EldoClosed
<1>. HIDE DEF S
<1>3. EldoUpTo(n)!transmission_line \in WordsOver(S)
  BY <1>2 DEF ClosedEldo, EldoUpTo!transmission_line
<1>4. EldoUpTo(n)!junction_diode \in WordsOver(S)
  BY <1>2 DEF ClosedEldo, EldoUpTo!junction_diode
<1>5. EldoUpTo(n)!bjt \in WordsOver(S)
  BY <1>2 DEF ClosedEldo, EldoUpTo!bjt
<1>6. EldoUpTo(n)!jfet \in WordsOver(S)
  BY <1>2 DEF ClosedEldo, EldoUpTo!jfet
<1>7. EldoUpTo(n)!mosfet \in WordsOver(S)
  <2>1. {"MODEL", "MOD"} \in SUBSET S
    BY <1>2
  <2>. QED BY <1>2, <2>1 DEF ClosedEldo, EldoUpTo!mosfet
<1>8. EldoUpTo(n)!subckt_instance \in WordsOver(S)
  BY <1>2 DEF ClosedEldo, EldoUpTo!subckt_instance
<1>9. EldoUpTo(n)!ivsource \in WordsOver(S)
  BY <1>2 DEF ClosedEldo, EldoUpTo!ivsource
<1>10. EldoUpTo(n)!icsource \in WordsOver(S)
  BY <1>2 DEF ClosedEldo, EldoUpTo!icsource
<1>11. EldoUpTo(n)!vcvs \in WordsOver(S)
  BY <1>2 DEF ClosedEldo, EldoUpTo!vcvs
<1>12. EldoUpTo(n)!cccs \in WordsOver(S)
  BY <1>2 DEF ClosedEldo, EldoUpTo!cccs
<1>13. EldoUpTo(n)!vccs \in WordsOver(S)
  BY <1>2 DEF ClosedEldo, EldoUpTo!vccs
<1>14. EldoUpTo(n)!ccvs \in WordsOver(S)
  BY <1>2 DEF ClosedEldo, EldoUpTo!ccvs
<1>15. EldoUpTo(n)!sw \in WordsOver(S)
  BY <1>2 DEF ClosedEldo, EldoUpTo!sw
<1>16. EldoUpTo(n)!operational_amplifier \in WordsOver(S)
  BY <1>2 DEF ClosedEldo, EldoUpTo!operational_amplifier
<1>17. EldoUpTo(n)!two_input_gate \in WordsOver(S)
  <2>1. {"DIG_NAND", "DIG_AND", "DIG_OR", "DIG_NOR", "DIG_XOR"} \in SUBSET S
    BY <1>2
  <2>. QED BY <1>2, <2>1 DEF ClosedEldo, EldoUpTo!two_input_gate
<1>18. EldoUpTo(n)!node_list \in WordsOver(S)
  BY <1>2 DEF ClosedEldo, EldoUpTo!node_list
<1>19. EldoUpTo(n)!node_list_item \in WordsOver(S)
  <2>1. {"node", "node_mapping"} \in SUBSET S
    BY <1>2
  <2>. QED BY <1>2, <2>1 DEF ClosedEldo, EldoUpTo!node_list_item
<1>20. EldoUpTo(n)!node_mapping \in WordsOver(S)
  BY <1>2 DEF ClosedEldo, EldoUpTo!node_mapping
<1>21. /\ EldoUpTo(n)!Rules["transmission_line"] = EldoUpTo(n)!transmission_line
       /\ EldoUpTo(n)!Rules["junction_diode"] = EldoUpTo(n)!junction_diode
       /\ EldoUpTo(n)!Rules["bjt"] = EldoUpTo(n)!bjt
       /\ EldoUpTo(n)!Rules["jfet"] = EldoUpTo(n)!jfet
       /\ EldoUpTo(n)!Rules["mosfet"] = EldoUpTo(n)!mosfet
       /\ EldoUpTo(n)!Rules["subckt_instance"] = EldoUpTo(n)!subckt_instance
       /\ EldoUpTo(n)!Rules["ivsource"] = EldoUpTo(n)!ivsource
       /\ EldoUpTo(n)!Rules["icsource"] = EldoUpTo(n)!icsource
       /\ EldoUpTo(n)!Rules["vcvs"] = EldoUpTo(n)!vcvs
       /\ EldoUpTo(n)!Rules["cccs"] = EldoUpTo(n)!cccs
       /\ EldoUpTo(n)!Rules["vccs"] = EldoUpTo(n)!vccs
       /\ EldoUpTo(n)!Rules["ccvs"] = EldoUpTo(n)!ccvs
       /\ EldoUpTo(n)!Rules["sw"] = EldoUpTo(n)!sw
       /\ EldoUpTo(n)!Rules["operational_amplifier"] = EldoUpTo(n)!operational_amplifier
       /\ EldoUpTo(n)!Rules["two_input_gate"] = EldoUpTo(n)!two_input_gate
       /\ EldoUpTo(n)!Rules["node_list"] = EldoUpTo(n)!node_list
       /\ EldoUpTo(n)!Rules["node_list_item"] = EldoUpTo(n)!node_list_item
       /\ EldoUpTo(n)!Rules["node_mapping"] = EldoUpTo(n)!node_mapping
  BY ZenonT(90) DEF EldoUpTo!Rules
<1>. QED BY <1>0, <1>1, <1>3, <1>4, <1>5, <1>6, <1>7, <1>8, <1>9, <1>10,
       <1>11, <1>12, <1>13, <1>14, <1>15, <1>16, <1>17, <1>18, <1>19, <1>20,
       <1>21 DEF S, EldoSuits

LEMMA EldoWords8 ==
  ASSUME NEW n \in Nat
  PROVE  \A r \in {"netlist_entity", "include", "library_def_content",
            "subckt_content", "control", "alter", "alter_content",
            "call_tcl", "ic", "ic_content", "ffile"} :
           EldoSuits(n, r)
<1>. DEFINE T == {"CALL_TCL", "FFILE", "IC", "ID", "alter",
                 "alter_definition", "alter_footer", "analysis", "call_tcl",
                 "call_tcl_when", "chrent", "component", "connect",
                 "control", "defmac", "defwave", "dspf_include",
                 "end_of_line", "expression", "ffile", "ffile_singleline",
                 "ffile_storage_format", "ffile_tabulation", "ffile_unit",
                 "filepath", "global", "global_declarations", "ic",
                 "ic_content", "ic_subckt", "include", "library",
                 "library_def", "meas", "model", "netlist_entity", "nodeset",
                 "option", "parameter", "parameter_list", "plot", "print",
                 "probe", "save", "standard_include", "subckt", "temp",
                 "use_tcl", "verilog_include"}
            S == T
<1>0. \A r \in {"netlist_entity", "include", "library_def_content",
          "subckt_content", "control", "alter", "alter_content", "call_tcl",
          "ic", "ic_content", "ffile"} :
        EldoInside(r) \subseteq EldoScopes
  BY DEF EldoInside, EldoHome, EldoStatements, EldoLibraryParts,
         EldoLibraryDefParts, EldoSubcktParts, EldoAlterParts, EldoAnalyses,
         EldoComponents, EldoControls, EldoModelParts, EldoParameters,
         EldoParameterParts, EldoNodes, EldoExpressions, EldoScopes,
         EldoParameterHomes, EldoNodeHomes, EldoExpressionHomes, Classes,
         V!Values
<1>1. \A s \in T : EldoScopes \subseteq EldoHome(s)
  BY DEF EldoHome, EldoStatements, EldoLibraryParts, EldoLibraryDefParts,
         EldoSubcktParts, EldoAlterParts, EldoAnalyses, EldoComponents,
         EldoControls, EldoModelParts, EldoParameters, EldoParameterParts,
         EldoNodes, EldoExpressions, EldoScopes, EldoParameterHomes,
         EldoNodeHomes, EldoExpressionHomes, Classes, V!Values
<1>2. ClosedEldo(n, S) /\ T \subseteq S
  BY EldoClosed
<1>. HIDE DEF S
<1>3. EldoUpTo(n)!netlist_entity \in WordsOver(S)
  <2>1. {"include", "library", "library_def", "subckt", "analysis", "global",
         "model", "global_declarations", "control", "component"} \in SUBSET S
    BY <1>2
  <2>. QED BY <1>2, <2>1 DEF ClosedEldo, EldoUpTo!netlist_entity
<1>4. EldoUpTo(n)!include \in WordsOver(S)
  <2>1. {"standard_include", "dspf_include", "verilog_include"} \in SUBSET S
    BY <1>2
  <2>. QED BY <1>2, <2>1 DEF ClosedEldo, EldoUpTo!include
<1>5. EldoUpTo(n)!library_def_content \in WordsOver(S)
  BY <1>2 DEF ClosedEldo, EldoUpTo!library_def_content
<1>6. EldoUpTo(n)!subckt_content \in WordsOver(S)
  BY <1>2 DEF ClosedEldo, EldoUpTo!subckt_content
<1>7. EldoUpTo(n)!control \in WordsOver(S)
  <2>1. {"alter", "save", "option", "nodeset", "call_tcl", "use_tcl",
         "defmac", "chrent", "ic", "print", "plot", "ffile", "probe",
         "defwave", "temp", "meas", "connect"} \in SUBSET S
    BY <1>2
  <2>. QED BY <1>2, <2>1 DEF ClosedEldo, EldoUpTo!control
<1>8. EldoUpTo(n)!alter \in WordsOver(S)
  BY <1>2 DEF ClosedEldo, EldoUpTo!alter
<1>9. EldoUpTo(n)!alter_content \in WordsOver(S)
  BY <1>2 DEF ClosedEldo, EldoUpTo!alter_content
<1>10. EldoUpTo(n)!call_tcl \in WordsOver(S)
  BY <1>2 DEF ClosedEldo, EldoUpTo!call_tcl
<1>11. EldoUpTo(n)!ic \in WordsOver(S)
  BY <1>2 DEF ClosedEldo, EldoUpTo!ic
<1>12. EldoUpTo(n)!ic_content \in WordsOver(S)
  BY <1>2 DEF ClosedEldo, EldoUpTo!ic_content
<1>13. EldoUpTo(n)!ffile \in WordsOver(S)
  BY <1>2 DEF ClosedEldo, EldoUpTo!ffile
<1>14. /\ EldoUpTo(n)!Rules["netlist_entity"] = EldoUpTo(n)!netlist_entity
       /\ EldoUpTo(n)!Rules["include"] = EldoUpTo(n)!include
       /\ EldoUpTo(n)!Rules["library_def_content"] = EldoUpTo(n)!library_def_content
       /\ EldoUpTo(n)!Rules["subckt_content"] = EldoUpTo(n)!subckt_content
       /\ EldoUpTo(n)!Rules["control"] = EldoUpTo(n)!control
       /\ EldoUpTo(n)!Rules["alter"] = EldoUpTo(n)!alter
       /\ EldoUpTo(n)!Rules["alter_content"] = EldoUpTo(n)!alter_content
       /\ EldoUpTo(n)!Rules["call_tcl"] = EldoUpTo(n)!call_tcl
       /\ EldoUpTo(n)!Rules["ic"] = EldoUpTo(n)!ic
       /\ EldoUpTo(n)!Rules["ic_content"] = EldoUpTo(n)!ic_content
       /\ EldoUpTo(n)!Rules["ffile"] = EldoUpTo(n)!ffile
  BY ZenonT(90) DEF EldoUpTo!Rules
<1>. QED BY <1>0, <1>1, <1>3, <1>4, <1>5, <1>6, <1>7, <1>8, <1>9, <1>10,
       <1>11, <1>12, <1>13, <1>14 DEF S, EldoSuits

LEMMA EldoWords9 ==
  ASSUME NEW n \in Nat
  PROVE  \A r \in {"library_key", "library_path", "library_name",
            "alter_footer", "end", "expression_operator", "expression_atom",
            "filepath", "filepath_element", "end_of_line"} :
           EldoSuits(n, r)
<1>. DEFINE T == {"APEX", "BITWISE_SHIFT_LEFT", "BITWISE_SHIFT_RIGHT",
                 "CARET", "DOLLAR", "DOT", "EOF", "EQUAL",
                 "EXCLAMATION_MARK", "GREATER_THAN", "GREATER_THAN_EQUAL",
                 "ID", "KEY", "LESS_THAN", "LESS_THAN_EQUAL", "LOGIC_AND",
                 "LOGIC_BITWISE_AND", "LOGIC_BITWISE_OR", "LOGIC_EQUAL",
                 "LOGIC_NOT_EQUAL", "LOGIC_OR", "LOGIC_XOR", "MINUS",
                 "NETLIST_END", "NL", "NUMBER", "PERCENT", "PERCENTAGE",
                 "PLUS", "POWER_OPERATOR", "SLASH", "STAR", "STRING",
                 "end_of_line", "filepath", "filepath_element"}
            S == T
<1>0. \A r \in {"library_key", "library_path", "library_name",
          "alter_footer", "end", "expression_operator", "expression_atom",
          "filepath", "filepath_element", "end_of_line"} :
        EldoInside(r) \subseteq Classes
  BY DEF EldoInside, EldoHome, EldoStatements, EldoLibraryParts,
         EldoLibraryDefParts, EldoSubcktParts, EldoAlterParts, EldoAnalyses,
         EldoComponents, EldoControls, EldoModelParts, EldoParameters,
         EldoParameterParts, EldoNodes, EldoExpressions, EldoScopes,
         EldoParameterHomes, EldoNodeHomes, EldoExpressionHomes, Classes,
         V!Values
<1>1. \A s \in T : Classes \subseteq EldoHome(s)
  BY DEF EldoHome, EldoStatements, EldoLibraryParts, EldoLibraryDefParts,
         EldoSubcktParts, EldoAlterParts, EldoAnalyses, EldoComponents,
         EldoControls, EldoModelParts, EldoParameters, EldoParameterParts,
         EldoNodes, EldoExpressions, EldoScopes, EldoParameterHomes,
         EldoNodeHomes, EldoExpressionHomes, Classes, V!Values
<1>2. ClosedEldo(n, S) /\ T \subseteq S
  BY EldoClosed
<1>. HIDE DEF S
<1>3. EldoUpTo(n)!library_key \in WordsOver(S)
  BY <1>2 DEF ClosedEldo, EldoUpTo!library_key
<1>4. EldoUpTo(n)!library_path \in WordsOver(S)
  BY <1>2 DEF ClosedEldo, EldoUpTo!library_path
<1>5. EldoUpTo(n)!library_name \in WordsOver(S)
  BY <1>2 DEF ClosedEldo, EldoUpTo!library_name
<1>6. EldoUpTo(n)!alter_footer \in WordsOver(S)
  BY <1>2 DEF ClosedEldo, EldoUpTo!alter_footer
<1>7. EldoUpTo(n)!end \in WordsOver(S)
  BY <1>2 DEF ClosedEldo, EldoUpTo!end
<1>8. EldoUpTo(n)!expression_operator \in WordsOver(S)
  <2>1. {"EQUAL", "PLUS", "MINUS", "STAR", "SLASH", "LOGIC_AND",
         "LOGIC_BITWISE_AND", "LOGIC_OR", "LOGIC_BITWISE_OR", "LOGIC_EQUAL",
         "LOGIC_NOT_EQUAL", "LOGIC_XOR", "LESS_THAN", "LESS_THAN_EQUAL",
         "GREATER_THAN", "GREATER_THAN_EQUAL", "EXCLAMATION_MARK",
         "BITWISE_SHIFT_LEFT", "BITWISE_SHIFT_RIGHT", "POWER_OPERATOR",
         "CARET", "PERCENT"} \in SUBSET S
    BY <1>2
  <2>. QED BY <1>2, <2>1 DEF ClosedEldo, EldoUpTo!expression_operator
<1>9. EldoUpTo(n)!expression_atom \in WordsOver(S)
  <2>1. {"NUMBER", "ID", "STRING", "PERCENTAGE"} \in SUBSET S
    BY <1>2
  <2>. QED BY <1>2, <2>1 DEF ClosedEldo, EldoUpTo!expression_atom
<1>10. EldoUpTo(n)!filepath \in WordsOver(S)
  BY <1>2 DEF ClosedEldo, EldoUpTo!filepath
<1>11. EldoUpTo(n)!filepath_element \in WordsOver(S)
  <2>1. {"ID", "STRING"} \in SUBSET S
    BY <1>2
  <2>. QED BY <1>2, <2>1 DEF ClosedEldo, EldoUpTo!filepath_element
<1>12. EldoUpTo(n)!end_of_line \in WordsOver(S)
  BY <1>2 DEF ClosedEldo, EldoUpTo!end_of_line
<1>13. /\ EldoUpTo(n)!Rules["library_key"] = EldoUpTo(n)!library_key
       /\ EldoUpTo(n)!Rules["library_path"] = EldoUpTo(n)!library_path
       /\ EldoUpTo(n)!Rules["library_name"] = EldoUpTo(n)!library_name
       /\ EldoUpTo(n)!Rules["alter_footer"] = EldoUpTo(n)!alter_footer
       /\ EldoUpTo(n)!Rules["end"] = EldoUpTo(n)!end
       /\ EldoUpTo(n)!Rules["expression_operator"] = EldoUpTo(n)!expression_operator
       /\ EldoUpTo(n)!Rules["expression_atom"] = EldoUpTo(n)!expression_atom
       /\ EldoUpTo(n)!Rules["filepath"] = EldoUpTo(n)!filepath
       /\ EldoUpTo(n)!Rules["filepath_element"] = EldoUpTo(n)!filepath_element
       /\ EldoUpTo(n)!Rules["end_of_line"] = EldoUpTo(n)!end_of_line
  BY ZenonT(90) DEF EldoUpTo!Rules
<1>. QED BY <1>0, <1>1, <1>3, <1>4, <1>5, <1>6, <1>7, <1>8, <1>9, <1>10,
       <1>11, <1>12, <1>13 DEF S, EldoSuits

LEMMA EldoWords10 ==
  ASSUME NEW n \in Nat
  PROVE  \A r \in {"analysis", "ac", "dc", "op", "op_selective", "solve",
            "tran", "tran_parameterized"} :
           EldoSuits(n, r)
<1>. DEFINE T == {"AC", "DC", "ID", "OP", "SOLVE", "TRAN", "ac",
                 "ac_adaptive", "ac_data_driven", "ac_list_driven",
                 "ac_parameter_driven", "age", "checksoa", "dc",
                 "dc_component_analysis", "dc_data_driven_analysis",
                 "dc_parameter_analysis", "dc_source_analysis",
                 "dc_temperature_analysis", "dchiz", "dcmismatch", "dex",
                 "dsp", "dspmod", "end_of_line", "expression", "extract",
                 "four", "lstb", "mc", "noise", "noisetran", "op",
                 "op_dc_based", "op_selective", "op_time_based", "optfour",
                 "optimize", "optnoise", "parameter_list", "pz", "ramp",
                 "sens", "sensac", "sensparam", "snf", "solve",
                 "solve_component", "solve_object", "solve_parameter", "tf",
                 "tran", "tran_data_driven", "tran_parameterized",
                 "tran_point_driven", "wcase"}
            S == T
<1>0. \A r \in {"analysis", "ac", "dc", "op", "op_selective", "solve",
          "tran", "tran_parameterized"} :
        EldoInside(r) \subseteq {"Analysis"}
  BY DEF EldoInside, EldoHome, EldoStatements, EldoLibraryParts,
         EldoLibraryDefParts, EldoSubcktParts, EldoAlterParts, EldoAnalyses,
         EldoComponents, EldoControls, EldoModelParts, EldoParameters,
         EldoParameterParts, EldoNodes, EldoExpressions, EldoScopes,
         EldoParameterHomes, EldoNodeHomes, EldoExpressionHomes, Classes,
         V!Values
<1>1. \A s \in T : {"Analysis"} \subseteq EldoHome(s)
  BY DEF EldoHome, EldoStatements, EldoLibraryParts, EldoLibraryDefParts,
         EldoSubcktParts, EldoAlterParts, EldoAnalyses, EldoComponents,
         EldoControls, EldoModelParts, EldoParameters, EldoParameterParts,
         EldoNodes, EldoExpressions, EldoScopes, EldoParameterHomes,
         EldoNodeHomes, EldoExpressionHomes, Classes, V!Values
<1>2. ClosedEldo(n, S) /\ T \subseteq S
  BY EldoClosed
<1>. HIDE DEF S
<1>3. EldoUpTo(n)!analysis \in WordsOver(S)
  <2>1. {"ac", "age", "checksoa", "dc", "dchiz", "dcmismatch", "dex", "dsp",
         "dspmod", "four", "lstb", "mc", "noise", "noisetran", "op",
         "optfour", "optimize", "optnoise", "pz", "ramp", "sens", "sensac",
         "sensparam", "snf", "solve", "tf", "tran", "wcase", "extract"} \in
         SUBSET S
    BY <1>2
  <2>. QED BY <1>2, <2>1 DEF ClosedEldo, EldoUpTo!analysis
<1>4. EldoUpTo(n)!ac \in WordsOver(S)
  <2>1. {"ac_parameter_driven", "ac_data_driven", "ac_list_driven",
         "ac_adaptive"} \in SUBSET S
    BY <1>2
  <2>. QED BY <1>2, <2>1 DEF ClosedEldo, EldoUpTo!ac
<1>5. EldoUpTo(n)!dc \in WordsOver(S)
  <2>1. {"dc_component_analysis", "dc_source_analysis",
         "dc_temperature_analysis", "dc_parameter_analysis",
         "dc_data_driven_analysis"} \in SUBSET S
    BY <1>2
  <2>. QED BY <1>2, <2>1 DEF ClosedEldo, EldoUpTo!dc
<1>6. EldoUpTo(n)!op \in WordsOver(S)
  <2>1. {"op_selective", "op_time_based", "op_dc_based"} \in SUBSET S
    BY <1>2
  <2>. QED BY <1>2, <2>1 DEF ClosedEldo, EldoUpTo!op
<1>7. EldoUpTo(n)!op_selective \in WordsOver(S)
  BY <1>2 DEF ClosedEldo, EldoUpTo!op_selective
<1>8. EldoUpTo(n)!solve \in WordsOver(S)
  <2>1. {"solve_parameter", "solve_object", "solve_component"} \in SUBSET S
    BY <1>2
  <2>. QED BY <1>2, <2>1 DEF ClosedEldo, EldoUpTo!solve
<1>9. EldoUpTo(n)!tran \in WordsOver(S)
  <2>1. {"tran_point_driven", "tran_parameterized", "tran_data_driven"} \in
         SUBSET S
    BY <1>2
  <2>. QED BY <1>2, <2>1 DEF ClosedEldo, EldoUpTo!tran
<1>10. EldoUpTo(n)!tran_parameterized \in WordsOver(S)
  BY <1>2 DEF ClosedEldo, EldoUpTo!tran_parameterized
<1>11. /\ EldoUpTo(n)!Rules["analysis"] = EldoUpTo(n)!analysis
       /\ EldoUpTo(n)!Rules["ac"] = EldoUpTo(n)!ac
       /\ EldoUpTo(n)!Rules["dc"] = EldoUpTo(n)!dc
       /\ EldoUpTo(n)!Rules["op"] = EldoUpTo(n)!op
       /\ EldoUpTo(n)!Rules["op_selective"] = EldoUpTo(n)!op_selective
       /\ EldoUpTo(n)!Rules["solve"] = EldoUpTo(n)!solve
       /\ EldoUpTo(n)!Rules["tran"] = EldoUpTo(n)!tran
       /\ EldoUpTo(n)!Rules["tran_parameterized"] = EldoUpTo(n)!tran_parameterized
  BY ZenonT(90) DEF EldoUpTo!Rules
<1>. QED BY <1>0, <1>1, <1>3, <1>4, <1>5, <1>6, <1>7, <1>8, <1>9, <1>10,
       <1>11 DEF S, EldoSuits

LEMMA EldoWords11 ==
  ASSUME NEW n \in Nat
  PROVE  \A r \in {"expression", "expression_unary",
            "expression_function_call", "expression_list", "parameter_lhs",
            "parameter_rhs"} :
           EldoSuits(n, r)
<1>. DEFINE T == {"CLOSE_CURLY", "CLOSE_ROUND", "CLOSE_SQUARE", "COLON",
                 "COMMA", "EQUAL", "ID", "MINUS", "MOD", "MODEL",
                 "OPEN_CURLY", "OPEN_ROUND", "OPEN_SQUARE", "PLUS",
                 "QUESTION_MARK", "expression", "expression_atom",
                 "expression_function_call", "expression_list",
                 "expression_operator", "expression_unary"}
            S == T
<1>0. \A r \in {"expression", "expression_unary", "expression_function_call",
          "expression_list", "parameter_lhs", "parameter_rhs"} :
        EldoInside(r) \subseteq EldoExpressionHomes
  BY DEF EldoInside, EldoHome, EldoStatements, EldoLibraryParts,
         EldoLibraryDefParts, EldoSubcktParts, EldoAlterParts, EldoAnalyses,
         EldoComponents, EldoControls, EldoModelParts, EldoParameters,
         EldoParameterParts, EldoNodes, EldoExpressions, EldoScopes,
         EldoParameterHomes, EldoNodeHomes, EldoExpressionHomes, Classes,
         V!Values
<1>1. \A s \in T : EldoExpressionHomes \subseteq EldoHome(s)
  BY DEF EldoHome, EldoStatements, EldoLibraryParts, EldoLibraryDefParts,
         EldoSubcktParts, EldoAlterParts, EldoAnalyses, EldoComponents,
         EldoControls, EldoModelParts, EldoParameters, EldoParameterParts,
         EldoNodes, EldoExpressions, EldoScopes, EldoParameterHomes,
         EldoNodeHomes, EldoExpressionHomes, Classes, V!Values
<1>2. ClosedEldo(n, S) /\ T \subseteq S
  BY EldoClosed
<1>. HIDE DEF S
<1>3. EldoUpTo(n)!expression \in WordsOver(S)
  <2>1. {"expression_unary", "expression_function_call", "expression_list",
         "expression_atom"} \in SUBSET S
    BY <1>2
  <2>. QED BY <1>2, <2>1 DEF ClosedEldo, EldoUpTo!expression
<1>4. EldoUpTo(n)!expression_unary \in WordsOver(S)
  <2>1. {"PLUS", "MINUS"} \in SUBSET S
    BY <1>2
  <2>. QED BY <1>2, <2>1 DEF ClosedEldo, EldoUpTo!expression_unary
<1>5. EldoUpTo(n)!expression_function_call \in WordsOver(S)
  <2>1. {"ID", "MOD", "MODEL"} \in SUBSET S
    BY <1>2
  <2>2. {"OPEN_ROUND", "OPEN_CURLY", "OPEN_SQUARE"} \in SUBSET S
    BY <1>2
  <2>3. {"CLOSE_ROUND", "CLOSE_CURLY", "CLOSE_SQUARE"} \in SUBSET S
    BY <1>2
  <2>. QED BY <1>2, <2>1, <2>2, <2>3 DEF ClosedEldo, EldoUpTo!expression_function_call
<1>6. EldoUpTo(n)!expression_list \in WordsOver(S)
  <2>1. {"OPEN_ROUND", "OPEN_CURLY", "OPEN_SQUARE"} \in SUBSET S
    BY <1>2
  <2>2. {"CLOSE_ROUND", "CLOSE_CURLY", "CLOSE_SQUARE"} \in SUBSET S
    BY <1>2
  <2>. QED BY <1>2, <2>1, <2>2 DEF ClosedEldo, EldoUpTo!expression_list
<1>7. EldoUpTo(n)!parameter_lhs \in WordsOver(S)
  <2>1. {"expression_function_call", "expression_list"} \in SUBSET S
    BY <1>2
  <2>2. {"ID", "MOD", "MODEL"} \in SUBSET S
    BY <1>2
  <2>. QED BY <1>2, <2>1, <2>2 DEF ClosedEldo, EldoUpTo!parameter_lhs
<1>8. EldoUpTo(n)!parameter_rhs \in WordsOver(S)
  BY <1>2 DEF ClosedEldo, EldoUpTo!parameter_rhs
<1>9. /\ EldoUpTo(n)!Rules["expression"] = EldoUpTo(n)!expression
      /\ EldoUpTo(n)!Rules["expression_unary"] = EldoUpTo(n)!expression_unary
      /\ EldoUpTo(n)!Rules["expression_function_call"] = EldoUpTo(n)!expression_function_call
      /\ EldoUpTo(n)!Rules["expression_list"] = EldoUpTo(n)!expression_list
      /\ EldoUpTo(n)!Rules["parameter_lhs"] = EldoUpTo(n)!parameter_lhs
      /\ EldoUpTo(n)!Rules["parameter_rhs"] = EldoUpTo(n)!parameter_rhs
  BY ZenonT(90) DEF EldoUpTo!Rules
<1>. QED BY <1>0, <1>1, <1>3, <1>4, <1>5, <1>6, <1>7, <1>8, <1>9 DEF S, EldoSuits

LEMMA EldoWords12 ==
  ASSUME NEW n \in Nat
  PROVE  \A r \in {"save", "chrent_behaviour", "chrent_point", "meas",
            "meas_configuration"} :
           EldoSuits(n, r)
<1>. DEFINE T == {"MEAS", "NUMBER", "SAVE", "chrent_pair", "chrent_point",
                 "end_of_line", "meas_at", "meas_catvect",
                 "meas_configuration", "meas_derivative", "meas_find",
                 "meas_info", "meas_label_name", "meas_param", "meas_targ",
                 "meas_trig", "meas_vect", "meas_when", "parameter_list",
                 "save_file", "save_when"}
            S == T
<1>0. \A r \in {"save", "chrent_behaviour", "chrent_point", "meas",
          "meas_configuration"} :
        EldoInside(r) \subseteq {"Control"}
  BY DEF EldoInside, EldoHome, EldoStatements, EldoLibraryParts,
         EldoLibraryDefParts, EldoSubcktParts, EldoAlterParts, EldoAnalyses,
         EldoComponents, EldoControls, EldoModelParts, EldoParameters,
         EldoParameterParts, EldoNodes, EldoExpressions, EldoScopes,
         EldoParameterHomes, EldoNodeHomes, EldoExpressionHomes, Classes,
         V!Values
<1>1. \A s \in T : {"Control"} \subseteq EldoHome(s)
  BY DEF EldoHome, EldoStatements, EldoLibraryParts, EldoLibraryDefParts,
         EldoSubcktParts, EldoAlterParts, EldoAnalyses, EldoComponents,
         EldoControls, EldoModelParts, EldoParameters, EldoParameterParts,
         EldoNodes, EldoExpressions, EldoScopes, EldoParameterHomes,
         EldoNodeHomes, EldoExpressionHomes, Classes, V!Values
<1>2. ClosedEldo(n, S) /\ T \subseteq S
  BY EldoClosed
<1>. HIDE DEF S
<1>3. EldoUpTo(n)!save \in WordsOver(S)
  BY <1>2 DEF ClosedEldo, EldoUpTo!save
<1>4. EldoUpTo(n)!chrent_behaviour \in WordsOver(S)
  BY <1>2 DEF ClosedEldo, EldoUpTo!chrent_behaviour
<1>5. EldoUpTo(n)!chrent_point \in WordsOver(S)
  BY <1>2 DEF ClosedEldo, EldoUpTo!chrent_point
<1>6. EldoUpTo(n)!meas \in WordsOver(S)
  BY <1>2 DEF ClosedEldo, EldoUpTo!meas
<1>7. EldoUpTo(n)!meas_configuration \in WordsOver(S)
  <2>1. {"meas_find", "meas_at", "meas_when", "meas_derivative",
         "meas_param"} \in SUBSET S
    BY <1>2
  <2>. QED BY <1>2, <2>1 DEF ClosedEldo, EldoUpTo!meas_configuration
<1>8. /\ EldoUpTo(n)!Rules["save"] = EldoUpTo(n)!save
      /\ EldoUpTo(n)!Rules["chrent_behaviour"] = EldoUpTo(n)!chrent_behaviour
      /\ EldoUpTo(n)!Rules["chrent_point"] = EldoUpTo(n)!chrent_point
      /\ EldoUpTo(n)!Rules["meas"] = EldoUpTo(n)!meas
      /\ EldoUpTo(n)!Rules["meas_configuration"] = EldoUpTo(n)!meas_configuration
  BY ZenonT(90) DEF EldoUpTo!Rules
<1>. QED BY <1>0, <1>1, <1>3, <1>4, <1>5, <1>6, <1>7, <1>8 DEF S, EldoSuits

LEMMA EldoWords13 ==
  ASSUME NEW n \in Nat
  PROVE  \A r \in {"library_def", "library_def_header", "library_def_footer"}
            :
           EldoSuits(n, r)
<1>. DEFINE T == {"LIB", "LIB_END", "end_of_line", "library_def_content",
                 "library_def_footer", "library_def_header", "library_name"}
            S == T
<1>0. \A r \in {"library_def", "library_def_header", "library_def_footer"} :
        EldoInside(r) \subseteq {"LibraryDef"}
  BY DEF EldoInside, EldoHome, EldoStatements, EldoLibraryParts,
         EldoLibraryDefParts, EldoSubcktParts, EldoAlterParts, EldoAnalyses,
         EldoComponents, EldoControls, EldoModelParts, EldoParameters,
         EldoParameterParts, EldoNodes, EldoExpressions, EldoScopes,
         EldoParameterHomes, EldoNodeHomes, EldoExpressionHomes, Classes,
         V!Values
<1>1. \A s \in T : {"LibraryDef"} \subseteq EldoHome(s)
  BY DEF EldoHome, EldoStatements, EldoLibraryParts, EldoLibraryDefParts,
         EldoSubcktParts, EldoAlterParts, EldoAnalyses, EldoComponents,
         EldoControls, EldoModelParts, EldoParameters, EldoParameterParts,
         EldoNodes, EldoExpressions, EldoScopes, EldoParameterHomes,
         EldoNodeHomes, EldoExpressionHomes, Classes, V!Values
<1>2. ClosedEldo(n, S) /\ T \subseteq S
  BY EldoClosed
<1>. HIDE DEF S
<1>3. EldoUpTo(n)!library_def \in WordsOver(S)
  BY <1>2 DEF ClosedEldo, EldoUpTo!library_def
<1>4. EldoUpTo(n)!library_def_header \in WordsOver(S)
  BY <1>2 DEF ClosedEldo, EldoUpTo!library_def_header
<1>5. EldoUpTo(n)!library_def_footer \in WordsOver(S)
  BY <1>2 DEF ClosedEldo, EldoUpTo!library_def_footer
<1>6. /\ EldoUpTo(n)!Rules["library_def"] = EldoUpTo(n)!library_def
      /\ EldoUpTo(n)!Rules["library_def_header"] = EldoUpTo(n)!library_def_header
      /\ EldoUpTo(n)!Rules["library_def_footer"] = EldoUpTo(n)!library_def_footer
  BY ZenonT(90) DEF EldoUpTo!Rules
<1>. QED BY <1>0, <1>1, <1>3, <1>4, <1>5, <1>6 DEF S, EldoSuits

LEMMA EldoWords14 ==
  ASSUME NEW n \in Nat
  PROVE  \A r \in {"component", "component_type", "component_attribute"} :
           EldoSuits(n, r)
<1>. DEFINE T == {"bjt", "capacitor", "cccs", "ccvs", "component_analysis",
                 "component_attribute", "component_coupling_list",
                 "component_net_list", "component_parameter_list",
                 "component_pin_list", "component_port_list",
                 "component_positional_keywork", "component_table",
                 "component_type", "component_value", "component_value_list",
                 "coupled_inductor", "diffusion_resistor", "end_of_line",
                 "icsource", "inductor", "interp_type", "ivsource", "jfet",
                 "junction_diode", "lossy_transmission_line", "ltl_u_model",
                 "ltl_w_model", "mosfet", "noise_function",
                 "operational_amplifier", "resistor", "subckt_instance",
                 "sw", "transmission_line", "two_input_gate", "vccs", "vcvs"}
            S == T
<1>0. \A r \in {"component", "component_type", "component_attribute"} :
        EldoInside(r) \subseteq {"Component"}
  BY DEF EldoInside, EldoHome, EldoStatements, EldoLibraryParts,
         EldoLibraryDefParts, EldoSubcktParts, EldoAlterParts, EldoAnalyses,
         EldoComponents, EldoControls, EldoModelParts, EldoParameters,
         EldoParameterParts, EldoNodes, EldoExpressions, EldoScopes,
         EldoParameterHomes, EldoNodeHomes, EldoExpressionHomes, Classes,
         V!Values
<1>1. \A s \in T : {"Component"} \subseteq EldoHome(s)
  BY DEF EldoHome, EldoStatements, EldoLibraryParts, EldoLibraryDefParts,
         EldoSubcktParts, EldoAlterParts, EldoAnalyses, EldoComponents,
         EldoControls, EldoModelParts, EldoParameters, EldoParameterParts,
         EldoNodes, EldoExpressions, EldoScopes, EldoParameterHomes,
         EldoNodeHomes, EldoExpressionHomes, Classes, V!Values
<1>2. ClosedEldo(n, S) /\ T \subseteq S
  BY EldoClosed
<1>. HIDE DEF S
<1>3. EldoUpTo(n)!component \in WordsOver(S)
  BY <1>2 DEF ClosedEldo, EldoUpTo!component
<1>4. EldoUpTo(n)!component_type \in WordsOver(S)
  <2>1. {"resistor", "capacitor", "inductor", "coupled_inductor",
         "diffusion_resistor", "transmission_line",
         "lossy_transmission_line", "ltl_w_model", "ltl_u_model",
         "junction_diode", "bjt", "jfet", "mosfet", "subckt_instance",
         "ivsource", "icsource", "vcvs", "cccs", "vccs", "ccvs",
         "noise_function", "sw", "operational_amplifier", "two_input_gate"}
         \in SUBSET S
    BY <1>2
  <2>. QED BY <1>2, <2>1 DEF ClosedEldo, EldoUpTo!component_type
<1>5. EldoUpTo(n)!component_attribute \in WordsOver(S)
  <2>1. {"component_parameter_list", "component_value", "component_analysis",
         "component_pin_list", "component_port_list", "component_net_list",
         "component_coupling_list", "component_value_list",
         "component_table", "component_positional_keywork", "interp_type"}
         \in SUBSET S
    BY <1>2
  <2>. QED BY <1>2, <2>1 DEF ClosedEldo, EldoUpTo!component_attribute
<1>6. /\ EldoUpTo(n)!Rules["component"] = EldoUpTo(n)!component
      /\ EldoUpTo(n)!Rules["component_type"] = EldoUpTo(n)!component_type
      /\ EldoUpTo(n)!Rules["component_attribute"] = EldoUpTo(n)!component_attribute
  BY ZenonT(90) DEF EldoUpTo!Rules
<1>. QED BY <1>0, <1>1, <1>3, <1>4, <1>5, <1>6 DEF S, EldoSuits

LEMMA EldoWords15 ==
  ASSUME NEW n \in Nat
  PROVE  \A r \in {"chrent"} :
           EldoSuits(n, r)
<1>. DEFINE T == {"CHRENT", "ID", "chrent_behaviour", "end_of_line", "node"}
            S == T
<1>0. \A r \in {"chrent"} :
        EldoInside(r) \subseteq {}
  BY DEF EldoInside, EldoHome, EldoStatements, EldoLibraryParts,
         EldoLibraryDefParts, EldoSubcktParts, EldoAlterParts, EldoAnalyses,
         EldoComponents, EldoControls, EldoModelParts, EldoParameters,
         EldoParameterParts, EldoNodes, EldoExpressions, EldoScopes,
         EldoParameterHomes, EldoNodeHomes, EldoExpressionHomes, Classes,
         V!Values
<1>1. \A s \in T : {} \subseteq EldoHome(s)
  BY DEF EldoHome, EldoStatements, EldoLibraryParts, EldoLibraryDefParts,
         EldoSubcktParts, EldoAlterParts, EldoAnalyses, EldoComponents,
         EldoControls, EldoModelParts, EldoParameters, EldoParameterParts,
         EldoNodes, EldoExpressions, EldoScopes, EldoParameterHomes,
         EldoNodeHomes, EldoExpressionHomes, Classes, V!Values
<1>2. ClosedEldo(n, S) /\ T \subseteq S
  BY EldoClosed
<1>. HIDE DEF S
<1>3. EldoUpTo(n)!chrent \in WordsOver(S)
  BY <1>2 DEF ClosedEldo, EldoUpTo!chrent
<1>4. /\ EldoUpTo(n)!Rules["chrent"] = EldoUpTo(n)!chrent
  BY ZenonT(90) DEF EldoUpTo!Rules
<1>. QED BY <1>0, <1>1, <1>3, <1>4 DEF S, EldoSuits

LEMMA EldoWords16 ==
  ASSUME NEW n \in Nat
  PROVE  \A r \in {"parameter"} :
           EldoSuits(n, r)
<1>. DEFINE T == {"parameter_lhs", "parameter_rhs"}
            S == T
<1>0. \A r \in {"parameter"} :
        EldoInside(r) \subseteq {"Parameter"}
  BY DEF EldoInside, EldoHome, EldoStatements, EldoLibraryParts,
         EldoLibraryDefParts, EldoSubcktParts, EldoAlterParts, EldoAnalyses,
         EldoComponents, EldoControls, EldoModelParts, EldoParameters,
         EldoParameterParts, EldoNodes, EldoExpressions, EldoScopes,
         EldoParameterHomes, EldoNodeHomes, EldoExpressionHomes, Classes,
         V!Values
<1>1. \A s \in T : {"Parameter"} \subseteq EldoHome(s)
  BY DEF EldoHome, EldoStatements, EldoLibraryParts, EldoLibraryDefParts,
         EldoSubcktParts, EldoAlterParts, EldoAnalyses, EldoComponents,
         EldoControls, EldoModelParts, EldoParameters, EldoParameterParts,
         EldoNodes, EldoExpressions, EldoScopes, EldoParameterHomes,
         EldoNodeHomes, EldoExpressionHomes, Classes, V!Values
<1>2. ClosedEldo(n, S) /\ T \subseteq S
  BY EldoClosed
<1>. HIDE DEF S
<1>3. EldoUpTo(n)!parameter \in WordsOver(S)
  BY <1>2 DEF ClosedEldo, EldoUpTo!parameter
<1>4. /\ EldoUpTo(n)!Rules["parameter"] = EldoUpTo(n)!parameter
  BY ZenonT(90) DEF EldoUpTo!Rules
<1>. QED BY <1>0, <1>1, <1>3, <1>4 DEF S, EldoSuits

LEMMA EldoWords17 ==
  ASSUME NEW n \in Nat
  PROVE  \A r \in {"node"} :
           EldoSuits(n, r)
<1>. DEFINE T == {"DOT", "ID", "NUMBER", "node"}
            S == T
<1>0. \A r \in {"node"} :
        EldoInside(r) \subseteq {"Node"}
  BY DEF EldoInside, EldoHome, EldoStatements, EldoLibraryParts,
         EldoLibraryDefParts, EldoSubcktParts, EldoAlterParts, EldoAnalyses,
         EldoComponents, EldoControls, EldoModelParts, EldoParameters,
         EldoParameterParts, EldoNodes, EldoExpressions, EldoScopes,
         EldoParameterHomes, EldoNodeHomes, EldoExpressionHomes, Classes,
         V!Values
<1>1. \A s \in T : {"Node"} \subseteq EldoHome(s)
  BY DEF EldoHome, EldoStatements, EldoLibraryParts, EldoLibraryDefParts,
         EldoSubcktParts, EldoAlterParts, EldoAnalyses, EldoComponents,
         EldoControls, EldoModelParts, EldoParameters, EldoParameterParts,
         EldoNodes, EldoExpressions, EldoScopes, EldoParameterHomes,
         EldoNodeHomes, EldoExpressionHomes, Classes, V!Values
<1>2. ClosedEldo(n, S) /\ T \subseteq S
  BY EldoClosed
<1>. HIDE DEF S
<1>3. EldoUpTo(n)!node \in WordsOver(S)
  <2>1. {"ID", "NUMBER"} \in SUBSET S
    BY <1>2
  <2>. QED BY <1>2, <2>1 DEF ClosedEldo, EldoUpTo!node
<1>4. /\ EldoUpTo(n)!Rules["node"] = EldoUpTo(n)!node
  BY ZenonT(90) DEF EldoUpTo!Rules
<1>. QED BY <1>0, <1>1, <1>3, <1>4 DEF S, EldoSuits

LEMMA EldoWords18 ==
  ASSUME NEW n \in Nat
  PROVE  \A r \in {"model"} :
           EldoSuits(n, r)
<1>. DEFINE T == {"MODEL_DEF", "NONOISE", "end_of_line", "filepath",
                 "model_lib", "model_lib_type", "model_master", "model_name",
                 "parameter_list"}
            S == T
<1>0. \A r \in {"model"} :
        EldoInside(r) \subseteq {"Model"}
  BY DEF EldoInside, EldoHome, EldoStatements, EldoLibraryParts,
         EldoLibraryDefParts, EldoSubcktParts, EldoAlterParts, EldoAnalyses,
         EldoComponents, EldoControls, EldoModelParts, EldoParameters,
         EldoParameterParts, EldoNodes, EldoExpressions, EldoScopes,
         EldoParameterHomes, EldoNodeHomes, EldoExpressionHomes, Classes,
         V!Values
<1>1. \A s \in T : {"Model"} \subseteq EldoHome(s)
  BY DEF EldoHome, EldoStatements, EldoLibraryParts, EldoLibraryDefParts,
         EldoSubcktParts, EldoAlterParts, EldoAnalyses, EldoComponents,
         EldoControls, EldoModelParts, EldoParameters, EldoParameterParts,
         EldoNodes, EldoExpressions, EldoScopes, EldoParameterHomes,
         EldoNodeHomes, EldoExpressionHomes, Classes, V!Values
<1>2. ClosedEldo(n, S) /\ T \subseteq S
  BY EldoClosed
<1>. HIDE DEF S
<1>3. EldoUpTo(n)!model \in WordsOver(S)
  BY <1>2 DEF ClosedEldo, EldoUpTo!model
<1>4. /\ EldoUpTo(n)!Rules["model"] = EldoUpTo(n)!model
  BY ZenonT(90) DEF EldoUpTo!Rules
<1>. QED BY <1>0, <1>1, <1>3, <1>4 DEF S, EldoSuits

LEMMA EldoWords19 ==
  ASSUME NEW n \in Nat
  PROVE  \A r \in {"subckt"} :
           EldoSuits(n, r)
<1>. DEFINE T == {"subckt_content", "subckt_footer", "subckt_header"}
            S == T
<1>0. \A r \in {"subckt"} :
        EldoInside(r) \subseteq {"Subckt"}
  BY DEF EldoInside, EldoHome, EldoStatements, EldoLibraryParts,
         EldoLibraryDefParts, EldoSubcktParts, EldoAlterParts, EldoAnalyses,
         EldoComponents, EldoControls, EldoModelParts, EldoParameters,
         EldoParameterParts, EldoNodes, EldoExpressions, EldoScopes,
         EldoParameterHomes, EldoNodeHomes, EldoExpressionHomes, Classes,
         V!Values
<1>1. \A s \in T : {"Subckt"} \subseteq EldoHome(s)
  BY DEF EldoHome, EldoStatements, EldoLibraryParts, EldoLibraryDefParts,
         EldoSubcktParts, EldoAlterParts, EldoAnalyses, EldoComponents,
         EldoControls, EldoModelParts, EldoParameters, EldoParameterParts,
         EldoNodes, EldoExpressions, EldoScopes, EldoParameterHomes,
         EldoNodeHomes, EldoExpressionHomes, Classes, V!Values
<1>2. ClosedEldo(n, S) /\ T \subseteq S
  BY EldoClosed
<1>. HIDE DEF S
<1>3. EldoUpTo(n)!subckt \in WordsOver(S)
  BY <1>2 DEF ClosedEldo, EldoUpTo!subckt
<1>4. /\ EldoUpTo(n)!Rules["subckt"] = EldoUpTo(n)!subckt
  BY ZenonT(90) DEF EldoUpTo!Rules
<1>. QED BY <1>0, <1>1, <1>3, <1>4 DEF S, EldoSuits

LEMMA EldoWords20 ==
  ASSUME NEW n \in Nat
  PROVE  \A r \in {"library"} :
           EldoSuits(n, r)
<1>. DEFINE T == {"LIB", "end_of_line", "library_key", "library_name",
                 "library_path"}
            S == T
<1>0. \A r \in {"library"} :
        EldoInside(r) \subseteq {"Library"}
  BY DEF EldoInside, EldoHome, EldoStatements, EldoLibraryParts,
         EldoLibraryDefParts, EldoSubcktParts, EldoAlterParts, EldoAnalyses,
         EldoComponents, EldoControls, EldoModelParts, EldoParameters,
         EldoParameterParts, EldoNodes, EldoExpressions, EldoScopes,
         EldoParameterHomes, EldoNodeHomes, EldoExpressionHomes, Classes,
         V!Values
<1>1. \A s \in T : {"Library"} \subseteq EldoHome(s)
  BY DEF EldoHome, EldoStatements, EldoLibraryParts, EldoLibraryDefParts,
         EldoSubcktParts, EldoAlterParts, EldoAnalyses, EldoComponents,
         EldoControls, EldoModelParts, EldoParameters, EldoParameterParts,
         EldoNodes, EldoExpressions, EldoScopes, EldoParameterHomes,
         EldoNodeHomes, EldoExpressionHomes, Classes, V!Values
<1>2. ClosedEldo(n, S) /\ T \subseteq S
  BY EldoClosed
<1>. HIDE DEF S
<1>3. EldoUpTo(n)!library \in WordsOver(S)
  BY <1>2 DEF ClosedEldo, EldoUpTo!library
<1>4. /\ EldoUpTo(n)!Rules["library"] = EldoUpTo(n)!library
  BY ZenonT(90) DEF EldoUpTo!Rules
<1>. QED BY <1>0, <1>1, <1>3, <1>4 DEF S, EldoSuits

LEMMA EldoWords21 ==
  ASSUME NEW n \in Nat
  PROVE  \A r \in {"netlist"} :
           EldoSuits(n, r)
<1>. DEFINE T == {"end", "end_of_line", "netlist_entity", "netlist_title"}
            S == T
<1>0. \A r \in {"netlist"} :
        EldoInside(r) \subseteq {"Circuit"}
  BY DEF EldoInside, EldoHome, EldoStatements, EldoLibraryParts,
         EldoLibraryDefParts, EldoSubcktParts, EldoAlterParts, EldoAnalyses,
         EldoComponents, EldoControls, EldoModelParts, EldoParameters,
         EldoParameterParts, EldoNodes, EldoExpressions, EldoScopes,
         EldoParameterHomes, EldoNodeHomes, EldoExpressionHomes, Classes,
         V!Values
<1>1. \A s \in T : {"Circuit"} \subseteq EldoHome(s)
  BY DEF EldoHome, EldoStatements, EldoLibraryParts, EldoLibraryDefParts,
         EldoSubcktParts, EldoAlterParts, EldoAnalyses, EldoComponents,
         EldoControls, EldoModelParts, EldoParameters, EldoParameterParts,
         EldoNodes, EldoExpressions, EldoScopes, EldoParameterHomes,
         EldoNodeHomes, EldoExpressionHomes, Classes, V!Values
<1>2. ClosedEldo(n, S) /\ T \subseteq S
  BY EldoClosed
<1>. HIDE DEF S
<1>3. EldoUpTo(n)!netlist \in WordsOver(S)
  BY <1>2 DEF ClosedEldo, EldoUpTo!netlist
<1>4. /\ EldoUpTo(n)!Rules["netlist"] = EldoUpTo(n)!netlist
  BY ZenonT(90) DEF EldoUpTo!Rules
<1>. QED BY <1>0, <1>1, <1>3, <1>4 DEF S, EldoSuits

LEMMA EldoWords22 ==
  ASSUME NEW n \in Nat
  PROVE  \A r \in {"alter_definition"} :
           EldoSuits(n, r)
<1>. DEFINE T == {"alter_content", "alter_header"}
            S == T
<1>0. \A r \in {"alter_definition"} :
        EldoInside(r) \subseteq {"ControlScope"}
  BY DEF EldoInside, EldoHome, EldoStatements, EldoLibraryParts,
         EldoLibraryDefParts, EldoSubcktParts, EldoAlterParts, EldoAnalyses,
         EldoComponents, EldoControls, EldoModelParts, EldoParameters,
         EldoParameterParts, EldoNodes, EldoExpressions, EldoScopes,
         EldoParameterHomes, EldoNodeHomes, EldoExpressionHomes, Classes,
         V!Values
<1>1. \A s \in T : {"ControlScope"} \subseteq EldoHome(s)
  BY DEF EldoHome, EldoStatements, EldoLibraryParts, EldoLibraryDefParts,
         EldoSubcktParts, EldoAlterParts, EldoAnalyses, EldoComponents,
         EldoControls, EldoModelParts, EldoParameters, EldoParameterParts,
         EldoNodes, EldoExpressions, EldoScopes, EldoParameterHomes,
         EldoNodeHomes, EldoExpressionHomes, Classes, V!Values
<1>2. ClosedEldo(n, S) /\ T \subseteq S
  BY EldoClosed
<1>. HIDE DEF S
<1>3. EldoUpTo(n)!alter_definition \in WordsOver(S)
  BY <1>2 DEF ClosedEldo, EldoUpTo!alter_definition
<1>4. /\ EldoUpTo(n)!Rules["alter_definition"] = EldoUpTo(n)!alter_definition
  BY ZenonT(90) DEF EldoUpTo!Rules
<1>. QED BY <1>0, <1>1, <1>3, <1>4 DEF S, EldoSuits

LEMMA EldoNamesAre ==
  ASSUME NEW n
  PROVE  DOMAIN EldoUpTo(n)!Rules =
           {"netlist", "netlist_title", "netlist_entity", "include",
            "standard_include", "verilog_include", "dspf_include", "library",
            "library_key", "library_path", "library_name", "library_def",
            "library_def_header", "library_def_content",
            "library_def_footer", "subckt", "subckt_header",
            "subckt_content", "subckt_footer", "analysis", "ac",
            "ac_parameter_driven", "ac_data_driven", "ac_list_driven",
            "ac_adaptive", "age", "checksoa", "dc", "dc_component_analysis",
            "dc_source_analysis", "dc_temperature_analysis",
            "dc_parameter_analysis", "dc_data_driven_analysis", "dchiz",
            "dcmismatch", "dex", "dsp", "dspmod", "four", "lstb", "mc",
            "noise", "noisetran", "op", "op_selective", "op_time_based",
            "op_dc_based", "optfour", "optimize", "optnoise", "pz", "ramp",
            "sens", "sensac", "sensparam", "snf", "solve", "solve_parameter",
            "solve_object", "solve_component", "tf", "tran",
            "tran_point_driven", "tran_parameterized", "tran_data_driven",
            "wcase", "extract", "global", "model", "model_lib", "model_name",
            "model_master", "model_lib_type", "control", "alter",
            "alter_definition", "alter_header", "alter_content",
            "alter_footer", "save", "save_file", "save_when", "option",
            "nodeset", "call_tcl", "call_tcl_when", "use_tcl", "defmac",
            "chrent", "chrent_behaviour", "chrent_point", "chrent_pair",
            "ic", "ic_content", "ic_subckt", "print", "plot", "ffile",
            "ffile_tabulation", "ffile_singleline", "ffile_unit",
            "ffile_storage_format", "probe", "defwave", "temp", "meas",
            "meas_info", "meas_vect", "meas_catvect", "meas_label_name",
            "meas_configuration", "meas_find", "meas_at", "meas_when",
            "meas_derivative", "meas_param", "meas_trig", "meas_targ",
            "connect", "global_declarations", "component", "component_type",
            "component_attribute", "component_value",
            "component_parameter_list", "component_analysis",
            "component_positional_keywork", "component_pin_list",
            "component_port_list", "component_net_list",
            "component_coupling_list", "component_table",
            "component_value_list", "interp_type", "resistor", "capacitor",
            "inductor", "coupled_inductor", "diffusion_resistor",
            "transmission_line", "lossy_transmission_line", "ltl_w_model",
            "ltl_u_model", "junction_diode", "bjt", "jfet", "mosfet",
            "subckt_instance", "ivsource", "icsource", "vcvs", "cccs",
            "vccs", "ccvs", "noise_function", "sw", "operational_amplifier",
            "two_input_gate", "end", "expression", "expression_unary",
            "expression_function_call", "expression_list",
            "expression_operator", "expression_atom", "node_list",
            "node_list_item", "node_mapping", "node", "parameter_list",
            "parameter_list_item", "parameter", "parameter_lhs",
            "parameter_rhs", "filepath", "filepath_element", "end_of_line"}
BY DEF EldoUpTo!Rules

LEMMA EldoWordsFit ==
  ASSUME NEW n \in Nat, NEW r \in DOMAIN EldoUpTo(n)!Rules
  PROVE  EldoSuits(n, r)
BY EldoNamesAre, EldoWords1, EldoWords2, EldoWords3, EldoWords4, EldoWords5,
   EldoWords6, EldoWords7, EldoWords8, EldoWords9, EldoWords10, EldoWords11,
   EldoWords12, EldoWords13, EldoWords14, EldoWords15, EldoWords16,
   EldoWords17, EldoWords18, EldoWords19, EldoWords20, EldoWords21,
   EldoWords22
-----------------------------------------------------------------------------
(* The words of Spectre.                                                    *)
LEMMA SpectreWords1 ==
  ASSUME NEW n \in Nat
  PROVE  \A r \in {"netlist_title", "netlist_entity", "include",
            "library_header", "library_content", "library_footer", "section",
            "section_header", "section_content", "section_footer",
            "analogmodel", "subckt_header", "subckt_content",
            "subckt_footer", "analysis"} :
           SpectreSuits(n, r)
<1>. DEFINE T == {"ANALOGMODEL", "EOF", "ID", "INLINE_SUBCKT", "LIBRARY",
                 "LIBRARY_END", "NL", "SECTION", "SECTION_END", "SUBCKT",
                 "SUBCKT_END", "ac", "acmatch", "ahdl_include",
                 "analogmodel", "analysis", "checklimit", "component",
                 "control", "cpp_include", "dc", "dcmatch", "envlp",
                 "global", "global_declarations", "include", "library",
                 "model", "montecarlo", "netlist_entity", "node_list",
                 "noise", "pac", "parameter_list", "pdisto", "pnoise", "psp",
                 "pss", "pxf", "pz", "qpac", "qpnoise", "qpsp", "qpss",
                 "qpxf", "reliability", "section", "section_content",
                 "section_footer", "section_header", "sens", "sp",
                 "standard_include", "statistics", "stb", "subckt", "sweep",
                 "tdr", "tran", "xf"}
            S == T
<1>0. \A r \in {"netlist_title", "netlist_entity", "include",
          "library_header", "library_content", "library_footer", "section",
          "section_header", "section_content", "section_footer",
          "analogmodel", "subckt_header", "subckt_content", "subckt_footer",
          "analysis"} :
        SpectreInside(r) \subseteq SpectreScopes
  BY DEF SpectreInside, SpectreHome, SpectreStatements, SpectreAnalysisParts,
         SpectreSubcktParts, SpectreLibraryParts, SpectreComponents,
         SpectreParameters, SpectreNodes, SpectreExpressions,
         SpectreUnvisited, SpectreScopes, SpectreParameterHomes,
         SpectreNodeHomes, SpectreExpressionHomes, Classes, V!Values
<1>1. \A s \in T : SpectreScopes \subseteq SpectreHome(s)
  BY DEF SpectreHome, SpectreStatements, SpectreAnalysisParts,
         SpectreSubcktParts, SpectreLibraryParts, SpectreComponents,
         SpectreParameters, SpectreNodes, SpectreExpressions,
         SpectreUnvisited, SpectreScopes, SpectreParameterHomes,
         SpectreNodeHomes, SpectreExpressionHomes, Classes, V!Values
<1>2. ClosedSpectre(n, S) /\ T \subseteq S
  BY SpectreClosed
<1>. HIDE DEF S
<1>3. SpectreUpTo(n)!netlist_title \in WordsOver(S)
  BY <1>2 DEF ClosedSpectre, SpectreUpTo!netlist_title
<1>4. SpectreUpTo(n)!netlist_entity \in WordsOver(S)
  <2>1. {"include", "library", "subckt", "analysis", "global", "model",
         "global_declarations", "control", "component", "section",
         "analogmodel", "statistics"} \in SUBSET S
    BY <1>2
  <2>. QED BY <1>2, <2>1 DEF ClosedSpectre, SpectreUpTo!netlist_entity
<1>5. SpectreUpTo(n)!include \in WordsOver(S)
  <2>1. {"standard_include", "cpp_include", "ahdl_include"} \in SUBSET S
    BY <1>2
  <2>. QED BY <1>2, <2>1 DEF ClosedSpectre, SpectreUpTo!include
<1>6. SpectreUpTo(n)!library_header \in WordsOver(S)
  BY <1>2 DEF ClosedSpectre, SpectreUpTo!library_header
<1>7. SpectreUpTo(n)!library_content \in WordsOver(S)
  BY <1>2 DEF ClosedSpectre, SpectreUpTo!library_content
<1>8. SpectreUpTo(n)!library_footer \in WordsOver(S)
  BY <1>2 DEF ClosedSpectre, SpectreUpTo!library_footer
<1>9. SpectreUpTo(n)!section \in WordsOver(S)
  BY <1>2 DEF ClosedSpectre, SpectreUpTo!section
<1>10. SpectreUpTo(n)!section_header \in WordsOver(S)
  BY <1>2 DEF ClosedSpectre, SpectreUpTo!section_header
<1>11. SpectreUpTo(n)!section_content \in WordsOver(S)
  BY <1>2 DEF ClosedSpectre, SpectreUpTo!section_content
<1>12. SpectreUpTo(n)!section_footer \in WordsOver(S)
  BY <1>2 DEF ClosedSpectre, SpectreUpTo!section_footer
<1>13. SpectreUpTo(n)!analogmodel \in WordsOver(S)
  BY <1>2 DEF ClosedSpectre, SpectreUpTo!analogmodel
<1>14. SpectreUpTo(n)!subckt_header \in WordsOver(S)
  <2>1. {"INLINE_SUBCKT", "SUBCKT"} \in SUBSET S
    BY <1>2
  <2>. QED BY <1>2, <2>1 DEF ClosedSpectre, SpectreUpTo!subckt_header
<1>15. SpectreUpTo(n)!subckt_content \in WordsOver(S)
  BY <1>2 DEF ClosedSpectre, SpectreUpTo!subckt_content
<1>16. SpectreUpTo(n)!subckt_footer \in WordsOver(S)
  BY <1>2 DEF ClosedSpectre, SpectreUpTo!subckt_footer
<1>17. SpectreUpTo(n)!analysis \in WordsOver(S)
  <2>1. {"ac", "acmatch", "dc", "dcmatch", "envlp", "sp", "stb", "sweep",
         "tdr", "tran", "xf", "pac", "pdisto", "pnoise", "psp", "pss", "pxf",
         "pz", "qpac", "qpnoise", "qpsp", "qpss", "qpxf", "sens",
         "montecarlo", "noise", "checklimit", "reliability"} \in SUBSET S
    BY <1>2
  <2>. QED BY <1>2, <2>1 DEF ClosedSpectre, SpectreUpTo!analysis
<1>18. \A r \in {"netlist_title", "netlist_entity", "include", "library_header",
          "library_content", "library_footer", "section", "section_header",
          "section_content", "section_footer", "analogmodel",
          "subckt_header", "subckt_content", "subckt_footer", "analysis"} :
        SpectreUpTo(n)!Rules[r] \in WordsOver(S)
  BY <1>3, <1>4, <1>5, <1>6, <1>7, <1>8, <1>9, <1>10, <1>11, <1>12, <1>13,
       <1>14, <1>15, <1>16, <1>17 DEF SpectreUpTo!Rules
<1>. QED BY <1>0, <1>1, <1>18 DEF S, SpectreSuits

LEMMA SpectreWords2 ==
  ASSUME NEW n \in Nat
  PROVE  \A r \in {"ac", "acmatch", "dc", "dcmatch", "envlp", "sp", "stb",
            "sweep_header", "sweep_content", "tdr", "tran", "xf", "pac",
            "pdisto", "pnoise", "psp", "pss", "pxf", "pz", "qpac"} :
           SpectreSuits(n, r)
<1>. DEFINE T == {"AC", "ACMATCH", "DC", "DCMATCH", "ENVLP", "EOF", "ID",
                 "NL", "OPEN_CURLY", "PAC", "PDISTO", "PNOISE", "PSP", "PSS",
                 "PXF", "PZ", "QPAC", "SP", "STB", "SWEEP", "TDR", "TRAN",
                 "XF", "netlist_entity", "node_list", "parameter_list"}
            S == T
<1>0. \A r \in {"ac", "acmatch", "dc", "dcmatch", "envlp", "sp", "stb",
          "sweep_header", "sweep_content", "tdr", "tran", "xf", "pac",
          "pdisto", "pnoise", "psp", "pss", "pxf", "pz", "qpac"} :
        SpectreInside(r) \subseteq SpectreScopes
  BY DEF SpectreInside, SpectreHome, SpectreStatements, SpectreAnalysisParts,
         SpectreSubcktParts, SpectreLibraryParts, SpectreComponents,
         SpectreParameters, SpectreNodes, SpectreExpressions,
         SpectreUnvisited, SpectreScopes, SpectreParameterHomes,
         SpectreNodeHomes, SpectreExpressionHomes, Classes, V!Values
<1>1. \A s \in T : SpectreScopes \subseteq SpectreHome(s)
  BY DEF SpectreHome, SpectreStatements, SpectreAnalysisParts,
         SpectreSubcktParts, SpectreLibraryParts, SpectreComponents,
         SpectreParameters, SpectreNodes, SpectreExpressions,
         SpectreUnvisited, SpectreScopes, SpectreParameterHomes,
         SpectreNodeHomes, SpectreExpressionHomes, Classes, V!Values
<1>2. ClosedSpectre(n, S) /\ T \subseteq S
  BY SpectreClosed
<1>. HIDE DEF S
<1>3. SpectreUpTo(n)!ac \in WordsOver(S)
  <2>1. {"ID", "AC"} \in SUBSET S
    BY <1>2
  <2>. QED BY <1>2, <2>1 DEF ClosedSpectre, SpectreUpTo!ac
<1>4. SpectreUpTo(n)!acmatch \in WordsOver(S)
  <2>1. {"ID", "ACMATCH"} \in SUBSET S
    BY <1>2
  <2>. QED BY <1>2, <2>1 DEF ClosedSpectre, SpectreUpTo!acmatch
<1>5. SpectreUpTo(n)!dc \in WordsOver(S)
  <2>1. {"ID", "DC"} \in SUBSET S
    BY <1>2
  <2>. QED BY <1>2, <2>1 DEF ClosedSpectre, SpectreUpTo!dc
<1>6. SpectreUpTo(n)!dcmatch \in WordsOver(S)
  <2>1. {"ID", "DCMATCH"} \in SUBSET S
    BY <1>2
  <2>. QED BY <1>2, <2>1 DEF ClosedSpectre, SpectreUpTo!dcmatch
<1>7. SpectreUpTo(n)!envlp \in WordsOver(S)
  <2>1. {"ID", "ENVLP"} \in SUBSET S
    BY <1>2
  <2>. QED BY <1>2, <2>1 DEF ClosedSpectre, SpectreUpTo!envlp
<1>8. SpectreUpTo(n)!sp \in WordsOver(S)
  <2>1. {"ID", "SP"} \in SUBSET S
    BY <1>2
  <2>. QED BY <1>2, <2>1 DEF ClosedSpectre, SpectreUpTo!sp
<1>9. SpectreUpTo(n)!stb \in WordsOver(S)
  <2>1. {"ID", "STB"} \in SUBSET S
    BY <1>2
  <2>. QED BY <1>2, <2>1 DEF ClosedSpectre, SpectreUpTo!stb
<1>10. SpectreUpTo(n)!sweep_header \in WordsOver(S)
  <2>1. {"ID", "SWEEP"} \in SUBSET S
    BY <1>2
  <2>. QED BY <1>2, <2>1 DEF ClosedSpectre, SpectreUpTo!sweep_header
<1>11. SpectreUpTo(n)!sweep_content \in WordsOver(S)
  BY <1>2 DEF ClosedSpectre, SpectreUpTo!sweep_content
<1>12. SpectreUpTo(n)!tdr \in WordsOver(S)
  <2>1. {"ID", "TDR"} \in SUBSET S
    BY <1>2
  <2>. QED BY <1>2, <2>1 DEF ClosedSpectre, SpectreUpTo!tdr
<1>13. SpectreUpTo(n)!tran \in WordsOver(S)
  <2>1. {"ID", "TRAN"} \in SUBSET S
    BY <1>2
  <2>. QED BY <1>2, <2>1 DEF ClosedSpectre, SpectreUpTo!tran
<1>14. SpectreUpTo(n)!xf \in WordsOver(S)
  <2>1. {"ID", "XF"} \in SUBSET S
    BY <1>2
  <2>. QED BY <1>2, <2>1 DEF ClosedSpectre, SpectreUpTo!xf
<1>15. SpectreUpTo(n)!pac \in WordsOver(S)
  <2>1. {"ID", "PAC"} \in SUBSET S
    BY <1>2
  <2>. QED BY <1>2, <2>1 DEF ClosedSpectre, SpectreUpTo!pac
<1>16. SpectreUpTo(n)!pdisto \in WordsOver(S)
  <2>1. {"ID", "PDISTO"} \in SUBSET S
    BY <1>2
  <2>. QED BY <1>2, <2>1 DEF ClosedSpectre, SpectreUpTo!pdisto
<1>17. SpectreUpTo(n)!pnoise \in WordsOver(S)
  <2>1. {"ID", "PNOISE"} \in SUBSET S
    BY <1>2
  <2>. QED BY <1>2, <2>1 DEF ClosedSpectre, SpectreUpTo!pnoise
<1>18. SpectreUpTo(n)!psp \in WordsOver(S)
  <2>1. {"ID", "PSP"} \in SUBSET S
    BY <1>2
  <2>. QED BY <1>2, <2>1 DEF ClosedSpectre, SpectreUpTo!psp
<1>19. SpectreUpTo(n)!pss \in WordsOver(S)
  <2>1. {"ID", "PSS"} \in SUBSET S
    BY <1>2
  <2>. QED BY <1>2, <2>1 DEF ClosedSpectre, SpectreUpTo!pss
<1>20. SpectreUpTo(n)!pxf \in WordsOver(S)
  <2>1. {"ID", "PXF"} \in SUBSET S
    BY <1>2
  <2>. QED BY <1>2, <2>1 DEF ClosedSpectre, SpectreUpTo!pxf
<1>21. SpectreUpTo(n)!pz \in WordsOver(S)
  <2>1. {"ID", "PZ"} \in SUBSET S
    BY <1>2
  <2>. QED BY <1>2, <2>1 DEF ClosedSpectre, SpectreUpTo!pz
<1>22. SpectreUpTo(n)!qpac \in WordsOver(S)
  <2>1. {"ID", "QPAC"} \in SUBSET S
    BY <1>2
  <2>. QED BY <1>2, <2>1 DEF ClosedSpectre, SpectreUpTo!qpac
<1>23. \A r \in {"ac", "acmatch", "dc", "dcmatch", "envlp", "sp", "stb",
          "sweep_header", "sweep_content", "tdr", "tran", "xf", "pac",
          "pdisto", "pnoise", "psp", "pss", "pxf", "pz", "qpac"} :
        SpectreUpTo(n)!Rules[r] \in WordsOver(S)
  BY <1>3, <1>4, <1>5, <1>6, <1>7, <1>8, <1>9, <1>10, <1>11, <1>12, <1>13,
       <1>14, <1>15, <1>16, <1>17, <1>18, <1>19, <1>20, <1>21, <1>22 DEF SpectreUpTo!Rules
<1>. QED BY <1>0, <1>1, <1>23 DEF S, SpectreSuits

LEMMA SpectreWords3 ==
  ASSUME NEW n \in Nat
  PROVE  \A r \in {"qpnoise", "qpsp", "qpss", "qpxf",
            "sens_output_variables_list", "sens_design_parameters_list",
            "sens_analyses_list", "montecarlo_header", "montecarlo_content",
            "montecarlo_export", "noise", "checklimit", "global", "model",
            "control", "alter", "altergroup", "altergroup_header",
            "altergroup_content", "assert_statement"} :
           SpectreSuits(n, r)
<1>. DEFINE T == {"ALTER", "ALTERGROUP", "ASSERT", "CHECKLIMIT",
                 "CLOSE_ROUND", "EOF", "EXPORT", "GLOBAL", "ID", "MODEL",
                 "MONTECARLO", "NL", "NOISE", "OPEN_CURLY", "OPEN_ROUND",
                 "QPNOISE", "QPSP", "QPSS", "QPXF", "alter", "altergroup",
                 "altergroup_content", "altergroup_footer",
                 "altergroup_header", "assert_statement", "check_statement",
                 "global_declarations", "ic", "info", "model_master",
                 "model_name", "netlist_entity", "node_list", "nodeset",
                 "option", "parameter_assign", "parameter_list", "save",
                 "set", "shell"}
            S == T
<1>0. \A r \in {"qpnoise", "qpsp", "qpss", "qpxf",
          "sens_output_variables_list", "sens_design_parameters_list",
          "sens_analyses_list", "montecarlo_header", "montecarlo_content",
          "montecarlo_export", "noise", "checklimit", "global", "model",
          "control", "alter", "altergroup", "altergroup_header",
          "altergroup_content", "assert_statement"} :
        SpectreInside(r) \subseteq SpectreScopes
  BY DEF SpectreInside, SpectreHome, SpectreStatements, SpectreAnalysisParts,
         SpectreSubcktParts, SpectreLibraryParts, SpectreComponents,
         SpectreParameters, SpectreNodes, SpectreExpressions,
         SpectreUnvisited, SpectreScopes, SpectreParameterHomes,
         SpectreNodeHomes, SpectreExpressionHomes, Classes, V!Values
<1>1. \A s \in T : SpectreScopes \subseteq SpectreHome(s)
  BY DEF SpectreHome, SpectreStatements, SpectreAnalysisParts,
         SpectreSubcktParts, SpectreLibraryParts, SpectreComponents,
         SpectreParameters, SpectreNodes, SpectreExpressions,
         SpectreUnvisited, SpectreScopes, SpectreParameterHomes,
         SpectreNodeHomes, SpectreExpressionHomes, Classes, V!Values
<1>2. ClosedSpectre(n, S) /\ T \subseteq S
  BY SpectreClosed
<1>. HIDE DEF S
<1>3. SpectreUpTo(n)!qpnoise \in WordsOver(S)
  <2>1. {"ID", "QPNOISE"} \in SUBSET S
    BY <1>2
  <2>. QED BY <1>2, <2>1 DEF ClosedSpectre, SpectreUpTo!qpnoise
<1>4. SpectreUpTo(n)!qpsp \in WordsOver(S)
  <2>1. {"ID", "QPSP"} \in SUBSET S
    BY <1>2
  <2>. QED BY <1>2, <2>1 DEF ClosedSpectre, SpectreUpTo!qpsp
<1>5. SpectreUpTo(n)!qpss \in WordsOver(S)
  <2>1. {"ID", "QPSS"} \in SUBSET S
    BY <1>2
  <2>. QED BY <1>2, <2>1 DEF ClosedSpectre, SpectreUpTo!qpss
<1>6. SpectreUpTo(n)!qpxf \in WordsOver(S)
  <2>1. {"ID", "QPXF"} \in SUBSET S
    BY <1>2
  <2>. QED BY <1>2, <2>1 DEF ClosedSpectre, SpectreUpTo!qpxf
<1>7. SpectreUpTo(n)!sens_output_variables_list \in WordsOver(S)
  BY <1>2 DEF ClosedSpectre, SpectreUpTo!sens_output_variables_list
<1>8. SpectreUpTo(n)!sens_design_parameters_list \in WordsOver(S)
  BY <1>2 DEF ClosedSpectre, SpectreUpTo!sens_design_parameters_list
<1>9. SpectreUpTo(n)!sens_analyses_list \in WordsOver(S)
  BY <1>2 DEF ClosedSpectre, SpectreUpTo!sens_analyses_list
<1>10. SpectreUpTo(n)!montecarlo_header \in WordsOver(S)
  <2>1. {"ID", "MONTECARLO"} \in SUBSET S
    BY <1>2
  <2>. QED BY <1>2, <2>1 DEF ClosedSpectre, SpectreUpTo!montecarlo_header
<1>11. SpectreUpTo(n)!montecarlo_content \in WordsOver(S)
  BY <1>2 DEF ClosedSpectre, SpectreUpTo!montecarlo_content
<1>12. SpectreUpTo(n)!montecarlo_export \in WordsOver(S)
  BY <1>2 DEF ClosedSpectre, SpectreUpTo!montecarlo_export
<1>13. SpectreUpTo(n)!noise \in WordsOver(S)
  <2>1. {"ID", "NOISE"} \in SUBSET S
    BY <1>2
  <2>. QED BY <1>2, <2>1 DEF ClosedSpectre, SpectreUpTo!noise
<1>14. SpectreUpTo(n)!checklimit \in WordsOver(S)
  <2>1. {"ID", "CHECKLIMIT"} \in SUBSET S
    BY <1>2
  <2>. QED BY <1>2, <2>1 DEF ClosedSpectre, SpectreUpTo!checklimit
<1>15. SpectreUpTo(n)!global \in WordsOver(S)
  BY <1>2 DEF ClosedSpectre, SpectreUpTo!global
<1>16. SpectreUpTo(n)!model \in WordsOver(S)
  BY <1>2 DEF ClosedSpectre, SpectreUpTo!model
<1>17. SpectreUpTo(n)!control \in WordsOver(S)
  <2>1. {"alter", "altergroup", "assert_statement", "check_statement",
         "save", "option", "set", "shell", "info", "nodeset", "ic"} \in
         SUBSET S
    BY <1>2
  <2>. QED BY <1>2, <2>1 DEF ClosedSpectre, SpectreUpTo!control
<1>18. SpectreUpTo(n)!alter \in WordsOver(S)
  BY <1>2 DEF ClosedSpectre, SpectreUpTo!alter
<1>19. SpectreUpTo(n)!altergroup \in WordsOver(S)
  BY <1>2 DEF ClosedSpectre, SpectreUpTo!altergroup
<1>20. SpectreUpTo(n)!altergroup_header \in WordsOver(S)
  BY <1>2 DEF ClosedSpectre, SpectreUpTo!altergroup_header
<1>21. SpectreUpTo(n)!altergroup_content \in WordsOver(S)
  BY <1>2 DEF ClosedSpectre, SpectreUpTo!altergroup_content
<1>22. SpectreUpTo(n)!assert_statement \in WordsOver(S)
  BY <1>2 DEF ClosedSpectre, SpectreUpTo!assert_statement
<1>23. \A r \in {"qpnoise", "qpsp", "qpss", "qpxf", "sens_output_variables_list",
          "sens_design_parameters_list", "sens_analyses_list",
          "montecarlo_header", "montecarlo_content", "montecarlo_export",
          "noise", "checklimit", "global", "model", "control", "alter",
          "altergroup", "altergroup_header", "altergroup_content",
          "assert_statement"} :
        SpectreUpTo(n)!Rules[r] \in WordsOver(S)
  BY <1>3, <1>4, <1>5, <1>6, <1>7, <1>8, <1>9, <1>10, <1>11, <1>12, <1>13,
       <1>14, <1>15, <1>16, <1>17, <1>18, <1>19, <1>20, <1>21, <1>22 DEF SpectreUpTo!Rules
<1>. QED BY <1>0, <1>1, <1>23 DEF S, SpectreSuits

LEMMA SpectreWords4 ==
  ASSUME NEW n \in Nat
  PROVE  \A r \in {"check_statement", "save", "set", "shell", "info",
            "nodeset", "ic", "statistics", "statistics_content", "process",
            "mismatch", "correlate", "truncate", "vary",
            "reliability_header", "reliability_control",
            "global_declarations", "component_value", "expression_unary",
            "expression_function_call"} :
           SpectreSuits(n, r)
<1>. DEFINE T == {"CHECK", "CLOSE_CURLY", "CLOSE_ROUND", "CLOSE_SQUARE",
                 "COMMA", "CORRELATE", "EOF", "EQUAL", "IC", "ID", "INFO",
                 "MINUS", "MISMATCH", "NL", "NODESET", "OPEN_CURLY",
                 "OPEN_ROUND", "OPEN_SQUARE", "PARAMETERS", "PLUS",
                 "PROCESS", "RELIABILITY", "SAVE", "SET", "SHELL", "STRING",
                 "TRUNCATE", "VARY", "correlate", "expression", "mismatch",
                 "parameter_access", "parameter_assign", "parameter_id",
                 "parameter_list", "parameter_list_item", "process",
                 "statistics_content", "statistics_footer",
                 "statistics_header", "truncate", "vary"}
            S == T
<1>0. \A r \in {"check_statement", "save", "set", "shell", "info", "nodeset",
          "ic", "statistics", "statistics_content", "process", "mismatch",
          "correlate", "truncate", "vary", "reliability_header",
          "reliability_control", "global_declarations", "component_value",
          "expression_unary", "expression_function_call"} :
        SpectreInside(r) \subseteq SpectreScopes
  BY DEF SpectreInside, SpectreHome, SpectreStatements, SpectreAnalysisParts,
         SpectreSubcktParts, SpectreLibraryParts, SpectreComponents,
         SpectreParameters, SpectreNodes, SpectreExpressions,
         SpectreUnvisited, SpectreScopes, SpectreParameterHomes,
         SpectreNodeHomes, SpectreExpressionHomes, Classes, V!Values
<1>1. \A s \in T : SpectreScopes \subseteq SpectreHome(s)
  BY DEF SpectreHome, SpectreStatements, SpectreAnalysisParts,
         SpectreSubcktParts, SpectreLibraryParts, SpectreComponents,
         SpectreParameters, SpectreNodes, SpectreExpressions,
         SpectreUnvisited, SpectreScopes, SpectreParameterHomes,
         SpectreNodeHomes, SpectreExpressionHomes, Classes, V!Values
<1>2. ClosedSpectre(n, S) /\ T \subseteq S
  BY SpectreClosed
<1>. HIDE DEF S
<1>3. SpectreUpTo(n)!check_statement \in WordsOver(S)
  BY <1>2 DEF ClosedSpectre, SpectreUpTo!check_statement
<1>4. SpectreUpTo(n)!save \in WordsOver(S)
  BY <1>2 DEF ClosedSpectre, SpectreUpTo!save
<1>5. SpectreUpTo(n)!set \in WordsOver(S)
  BY <1>2 DEF ClosedSpectre, SpectreUpTo!set
<1>6. SpectreUpTo(n)!shell \in WordsOver(S)
  BY <1>2 DEF ClosedSpectre, SpectreUpTo!shell
<1>7. SpectreUpTo(n)!info \in WordsOver(S)
  BY <1>2 DEF ClosedSpectre, SpectreUpTo!info
<1>8. SpectreUpTo(n)!nodeset \in WordsOver(S)
  BY <1>2 DEF ClosedSpectre, SpectreUpTo!nodeset
<1>9. SpectreUpTo(n)!ic \in WordsOver(S)
  BY <1>2 DEF ClosedSpectre, SpectreUpTo!ic
<1>10. SpectreUpTo(n)!statistics \in WordsOver(S)
  BY <1>2 DEF ClosedSpectre, SpectreUpTo!statistics
<1>11. SpectreUpTo(n)!statistics_content \in WordsOver(S)
  <2>1. {"process", "mismatch", "vary", "correlate", "truncate"} \in SUBSET S
    BY <1>2
  <2>. QED BY <1>2, <2>1 DEF ClosedSpectre, SpectreUpTo!statistics_content
<1>12. SpectreUpTo(n)!process \in WordsOver(S)
  BY <1>2 DEF ClosedSpectre, SpectreUpTo!process
<1>13. SpectreUpTo(n)!mismatch \in WordsOver(S)
  BY <1>2 DEF ClosedSpectre, SpectreUpTo!mismatch
<1>14. SpectreUpTo(n)!correlate \in WordsOver(S)
  BY <1>2 DEF ClosedSpectre, SpectreUpTo!correlate
<1>15. SpectreUpTo(n)!truncate \in WordsOver(S)
  BY <1>2 DEF ClosedSpectre, SpectreUpTo!truncate
<1>16. SpectreUpTo(n)!vary \in WordsOver(S)
  BY <1>2 DEF ClosedSpectre, SpectreUpTo!vary
<1>17. SpectreUpTo(n)!reliability_header \in WordsOver(S)
  BY <1>2 DEF ClosedSpectre, SpectreUpTo!reliability_header
<1>18. SpectreUpTo(n)!reliability_control \in WordsOver(S)
  BY <1>2 DEF ClosedSpectre, SpectreUpTo!reliability_control
<1>19. SpectreUpTo(n)!global_declarations \in WordsOver(S)
  BY <1>2 DEF ClosedSpectre, SpectreUpTo!global_declarations
<1>20. SpectreUpTo(n)!component_value \in WordsOver(S)
  <2>1. {"STRING", "expression"} \in SUBSET S
    BY <1>2
  <2>. QED BY <1>2, <2>1 DEF ClosedSpectre, SpectreUpTo!component_value
<1>21. SpectreUpTo(n)!expression_unary \in WordsOver(S)
  <2>1. {"PLUS", "MINUS"} \in SUBSET S
    BY <1>2
  <2>. QED BY <1>2, <2>1 DEF ClosedSpectre, SpectreUpTo!expression_unary
<1>22. SpectreUpTo(n)!expression_function_call \in WordsOver(S)
  BY <1>2 DEF ClosedSpectre, SpectreUpTo!expression_function_call
<1>23. \A r \in {"check_statement", "save", "set", "shell", "info", "nodeset", "ic",
          "statistics", "statistics_content", "process", "mismatch",
          "correlate", "truncate", "vary", "reliability_header",
          "reliability_control", "global_declarations", "component_value",
          "expression_unary", "expression_function_call"} :
        SpectreUpTo(n)!Rules[r] \in WordsOver(S)
  BY <1>3, <1>4, <1>5, <1>6, <1>7, <1>8, <1>9, <1>10, <1>11, <1>12, <1>13,
       <1>14, <1>15, <1>16, <1>17, <1>18, <1>19, <1>20, <1>21, <1>22 DEF SpectreUpTo!Rules
<1>. QED BY <1>0, <1>1, <1>23 DEF S, SpectreSuits

LEMMA SpectreWords5 ==
  ASSUME NEW n \in Nat
  PROVE  \A r \in {"expression_atom", "array_item", "parameter_assign",
            "parameter_id", "parameter_access", "time_point"} :
           SpectreSuits(n, r)
<1>. DEFINE T == {"COLON", "DC", "DELAY", "EQUAL", "ID", "NUMBER",
                 "PERCENTAGE", "PORTS", "SAVE", "SECTION", "STRING",
                 "analysis_type", "component_type", "expression", "filepath",
                 "keyword", "parameter_id"}
            S == T
<1>0. \A r \in {"expression_atom", "array_item", "parameter_assign",
          "parameter_id", "parameter_access", "time_point"} :
        SpectreInside(r) \subseteq SpectreScopes
  BY DEF SpectreInside, SpectreHome, SpectreStatements, SpectreAnalysisParts,
         SpectreSubcktParts, SpectreLibraryParts, SpectreComponents,
         SpectreParameters, SpectreNodes, SpectreExpressions,
         SpectreUnvisited, SpectreScopes, SpectreParameterHomes,
         SpectreNodeHomes, SpectreExpressionHomes, Classes, V!Values
<1>1. \A s \in T : SpectreScopes \subseteq SpectreHome(s)
  BY DEF SpectreHome, SpectreStatements, SpectreAnalysisParts,
         SpectreSubcktParts, SpectreLibraryParts, SpectreComponents,
         SpectreParameters, SpectreNodes, SpectreExpressions,
         SpectreUnvisited, SpectreScopes, SpectreParameterHomes,
         SpectreNodeHomes, SpectreExpressionHomes, Classes, V!Values
<1>2. ClosedSpectre(n, S) /\ T \subseteq S
  BY SpectreClosed
<1>. HIDE DEF S
<1>3. SpectreUpTo(n)!expression_atom \in WordsOver(S)
  <2>1. {"NUMBER", "ID", "STRING", "PERCENTAGE", "keyword", "analysis_type",
         "component_type"} \in SUBSET S
    BY <1>2
  <2>. QED BY <1>2, <2>1 DEF ClosedSpectre, SpectreUpTo!expression_atom
<1>4. SpectreUpTo(n)!array_item \in WordsOver(S)
  <2>1. {"NUMBER", "ID", "STRING", "PERCENTAGE", "keyword", "analysis_type",
         "component_type"} \in SUBSET S
    BY <1>2
  <2>. QED BY <1>2, <2>1 DEF ClosedSpectre, SpectreUpTo!array_item
<1>5. SpectreUpTo(n)!parameter_assign \in WordsOver(S)
  BY <1>2 DEF ClosedSpectre, SpectreUpTo!parameter_assign
<1>6. SpectreUpTo(n)!parameter_id \in WordsOver(S)
  <2>1. {"ID", "SECTION", "DC", "SAVE", "DELAY", "PORTS"} \in SUBSET S
    BY <1>2
  <2>. QED BY <1>2, <2>1 DEF ClosedSpectre, SpectreUpTo!parameter_id
<1>7. SpectreUpTo(n)!parameter_access \in WordsOver(S)
  <2>1. {"ID", "NUMBER"} \in SUBSET S
    BY <1>2
  <2>. QED BY <1>2, <2>1 DEF ClosedSpectre, SpectreUpTo!parameter_access
<1>8. SpectreUpTo(n)!time_point \in WordsOver(S)
  BY <1>2 DEF ClosedSpectre, SpectreUpTo!time_point
<1>9. \A r \in {"expression_atom", "array_item", "parameter_assign",
          "parameter_id", "parameter_access", "time_point"} :
        SpectreUpTo(n)!Rules[r] \in WordsOver(S)
  BY <1>3, <1>4, <1>5, <1>6, <1>7, <1>8 DEF SpectreUpTo!Rules
<1>. QED BY <1>0, <1>1, <1>9 DEF S, SpectreSuits

LEMMA SpectreWords6 ==
  ASSUME NEW n \in Nat
  PROVE  \A r \in {"cpp_include", "ahdl_include", "lang", "sweep_footer",
            "montecarlo_footer", "model_name", "model_master",
            "altergroup_footer", "statistics_header", "statistics_footer",
            "reliability_footer", "component_id", "component_master",
            "expression_operator", "filepath", "filepath_element"} :
           SpectreSuits(n, r)
<1>. DEFINE T == {"AHDL_INCLUDE", "APEX", "BITWISE_SHIFT_LEFT",
                 "BITWISE_SHIFT_RIGHT", "CARET", "CLOSE_CURLY",
                 "CPP_INCLUDE", "DOLLAR", "DOT", "EOF", "EQUAL",
                 "EXCLAMATION_MARK", "GREATER_THAN", "GREATER_THAN_EQUAL",
                 "ID", "INSENSITIVE", "LANGUAGE", "LESS_THAN",
                 "LESS_THAN_EQUAL", "LOGIC_AND", "LOGIC_BITWISE_AND",
                 "LOGIC_BITWISE_OR", "LOGIC_EQUAL", "LOGIC_NOT_EQUAL",
                 "LOGIC_OR", "LOGIC_XOR", "MINUS", "NL", "OPEN_CURLY",
                 "PERCENT", "PLUS", "POWER_OPERATOR", "SIMULATOR", "SLASH",
                 "SPECTRE", "SPICE", "STAR", "STATISTICS", "STRING",
                 "component_type", "filepath", "filepath_element"}
            S == T
<1>0. \A r \in {"cpp_include", "ahdl_include", "lang", "sweep_footer",
          "montecarlo_footer", "model_name", "model_master",
          "altergroup_footer", "statistics_header", "statistics_footer",
          "reliability_footer", "component_id", "component_master",
          "expression_operator", "filepath", "filepath_element"} :
        SpectreInside(r) \subseteq Classes
  BY DEF SpectreInside, SpectreHome, SpectreStatements, SpectreAnalysisParts,
         SpectreSubcktParts, SpectreLibraryParts, SpectreComponents,
         SpectreParameters, SpectreNodes, SpectreExpressions,
         SpectreUnvisited, SpectreScopes, SpectreParameterHomes,
         SpectreNodeHomes, SpectreExpressionHomes, Classes, V!Values
<1>1. \A s \in T : Classes \subseteq SpectreHome(s)
  BY DEF SpectreHome, SpectreStatements, SpectreAnalysisParts,
         SpectreSubcktParts, SpectreLibraryParts, SpectreComponents,
         SpectreParameters, SpectreNodes, SpectreExpressions,
         SpectreUnvisited, SpectreScopes, SpectreParameterHomes,
         SpectreNodeHomes, SpectreExpressionHomes, Classes, V!Values
<1>2. ClosedSpectre(n, S) /\ T \subseteq S
  BY SpectreClosed
<1>. HIDE DEF S
<1>3. SpectreUpTo(n)!cpp_include \in WordsOver(S)
  BY <1>2 DEF ClosedSpectre, SpectreUpTo!cpp_include
<1>4. SpectreUpTo(n)!ahdl_include \in WordsOver(S)
  BY <1>2 DEF ClosedSpectre, SpectreUpTo!ahdl_include
<1>5. SpectreUpTo(n)!lang \in WordsOver(S)
  BY <1>2 DEF ClosedSpectre, SpectreUpTo!lang
<1>6. SpectreUpTo(n)!sweep_footer \in WordsOver(S)
  BY <1>2 DEF ClosedSpectre, SpectreUpTo!sweep_footer
<1>7. SpectreUpTo(n)!montecarlo_footer \in WordsOver(S)
  BY <1>2 DEF ClosedSpectre, SpectreUpTo!montecarlo_footer
<1>8. SpectreUpTo(n)!model_name \in WordsOver(S)
  BY <1>2 DEF ClosedSpectre, SpectreUpTo!model_name
<1>9. SpectreUpTo(n)!model_master \in WordsOver(S)
  <2>1. {"ID", "component_type"} \in SUBSET S
    BY <1>2
  <2>. QED BY <1>2, <2>1 DEF ClosedSpectre, SpectreUpTo!model_master
<1>10. SpectreUpTo(n)!altergroup_footer \in WordsOver(S)
  BY <1>2 DEF ClosedSpectre, SpectreUpTo!altergroup_footer
<1>11. SpectreUpTo(n)!statistics_header \in WordsOver(S)
  BY <1>2 DEF ClosedSpectre, SpectreUpTo!statistics_header
<1>12. SpectreUpTo(n)!statistics_footer \in WordsOver(S)
  BY <1>2 DEF ClosedSpectre, SpectreUpTo!statistics_footer
<1>13. SpectreUpTo(n)!reliability_footer \in WordsOver(S)
  BY <1>2 DEF ClosedSpectre, SpectreUpTo!reliability_footer
<1>14. SpectreUpTo(n)!component_id \in WordsOver(S)
  BY <1>2 DEF ClosedSpectre, SpectreUpTo!component_id
<1>15. SpectreUpTo(n)!component_master \in WordsOver(S)
  <2>1. {"ID", "component_type"} \in SUBSET S
    BY <1>2
  <2>. QED BY <1>2, <2>1 DEF ClosedSpectre, SpectreUpTo!component_master
<1>16. SpectreUpTo(n)!expression_operator \in WordsOver(S)
  <2>1. {"PLUS", "MINUS", "STAR", "SLASH", "LOGIC_AND", "LOGIC_BITWISE_AND",
         "LOGIC_OR", "LOGIC_BITWISE_OR", "LOGIC_EQUAL", "LOGIC_NOT_EQUAL",
         "LOGIC_XOR", "LESS_THAN", "LESS_THAN_EQUAL", "GREATER_THAN",
         "GREATER_THAN_EQUAL", "EXCLAMATION_MARK", "BITWISE_SHIFT_LEFT",
         "BITWISE_SHIFT_RIGHT", "POWER_OPERATOR", "CARET", "PERCENT"} \in
         SUBSET S
    BY <1>2
  <2>. QED BY <1>2, <2>1 DEF ClosedSpectre, SpectreUpTo!expression_operator
<1>17. SpectreUpTo(n)!filepath \in WordsOver(S)
  BY <1>2 DEF ClosedSpectre, SpectreUpTo!filepath
<1>18. SpectreUpTo(n)!filepath_element \in WordsOver(S)
  <2>1. {"ID", "STRING"} \in SUBSET S
    BY <1>2
  <2>. QED BY <1>2, <2>1 DEF ClosedSpectre, SpectreUpTo!filepath_element
<1>19. \A r \in {"cpp_include", "ahdl_include", "lang", "sweep_footer",
          "montecarlo_footer", "model_name", "model_master",
          "altergroup_footer", "statistics_header", "statistics_footer",
          "reliability_footer", "component_id", "component_master",
          "expression_operator", "filepath", "filepath_element"} :
        SpectreUpTo(n)!Rules[r] \in WordsOver(S)
  BY <1>3, <1>4, <1>5, <1>6, <1>7, <1>8, <1>9, <1>10, <1>11, <1>12, <1>13,
       <1>14, <1>15, <1>16, <1>17, <1>18 DEF SpectreUpTo!Rules
<1>. QED BY <1>0, <1>1, <1>19 DEF S, SpectreSuits

LEMMA SpectreWords7 ==
  ASSUME NEW n \in Nat
  PROVE  \A r \in {"keyword", "analysis_type"} :
           SpectreSuits(n, r)
<1>. DEFINE T == {"AC", "ACMATCH", "ALTER", "ALTERGROUP", "ANALOGMODEL",
                 "ASSERT", "CHECK", "CHECKLIMIT", "CHECKPOINT", "COEFFS",
                 "CORRELATE", "DC", "DCMATCH", "ELSE", "ENVLP", "IC", "IF",
                 "INFO", "INSENSITIVE", "LANGUAGE", "MISMATCH", "MONTECARLO",
                 "NODESET", "NOISE", "OPTIONS", "PAC", "PARAMETERS",
                 "PDISTO", "PNOISE", "PORTS", "PROCESS", "PSP", "PSS",
                 "PULSE", "PWL", "PXF", "PZ", "QPAC", "QPNOISE", "QPSP",
                 "QPSS", "QPXF", "RELIABILITY", "SENS", "SET", "SFFM",
                 "SHELL", "SIN", "SP", "SPECTRE", "SPICE", "STATISTICS",
                 "STB", "SWEEP", "TDR", "TRAN", "TRUNCATE", "VARY", "WAVE",
                 "XF"}
            S == T
<1>0. \A r \in {"keyword", "analysis_type"} :
        SpectreInside(r) \subseteq Classes
  BY DEF SpectreInside, SpectreHome, SpectreStatements, SpectreAnalysisParts,
         SpectreSubcktParts, SpectreLibraryParts, SpectreComponents,
         SpectreParameters, SpectreNodes, SpectreExpressions,
         SpectreUnvisited, SpectreScopes, SpectreParameterHomes,
         SpectreNodeHomes, SpectreExpressionHomes, Classes, V!Values
<1>1. \A s \in T : Classes \subseteq SpectreHome(s)
  BY DEF SpectreHome, SpectreStatements, SpectreAnalysisParts,
         SpectreSubcktParts, SpectreLibraryParts, SpectreComponents,
         SpectreParameters, SpectreNodes, SpectreExpressions,
         SpectreUnvisited, SpectreScopes, SpectreParameterHomes,
         SpectreNodeHomes, SpectreExpressionHomes, Classes, V!Values
<1>2. ClosedSpectre(n, S) /\ T \subseteq S
  BY SpectreClosed
<1>. HIDE DEF S
<1>3. SpectreUpTo(n)!keyword \in WordsOver(S)
  <2>1. {"ALTER", "ALTERGROUP", "OPTIONS", "SET", "SHELL", "INFO", "NODESET",
         "IC", "ASSERT", "CHECK", "LANGUAGE", "PORTS", "WAVE", "PWL", "SIN",
         "SFFM", "PULSE", "COEFFS", "INSENSITIVE", "IF", "ELSE",
         "PARAMETERS", "ANALOGMODEL", "CHECKPOINT", "SPECTRE", "SPICE",
         "STATISTICS", "PROCESS", "CORRELATE", "TRUNCATE", "MISMATCH",
         "VARY", "RELIABILITY"} \in SUBSET S
    BY <1>2
  <2>. QED BY <1>2, <2>1 DEF ClosedSpectre, SpectreUpTo!keyword
<1>4. SpectreUpTo(n)!analysis_type \in WordsOver(S)
  <2>1. {"AC", "ACMATCH", "DC", "DCMATCH", "ENVLP", "SP", "STB", "SWEEP",
         "TDR", "TRAN", "XF", "PAC", "PDISTO", "PNOISE", "PSP", "PSS", "PXF",
         "PZ", "QPAC", "QPNOISE", "QPSP", "QPSS", "QPXF", "SENS",
         "MONTECARLO", "NOISE", "CHECKLIMIT"} \in SUBSET S
    BY <1>2
  <2>. QED BY <1>2, <2>1 DEF ClosedSpectre, SpectreUpTo!analysis_type
<1>5. \A r \in {"keyword", "analysis_type"} :
        SpectreUpTo(n)!Rules[r] \in WordsOver(S)
  BY <1>3, <1>4 DEF SpectreUpTo!Rules
<1>. QED BY <1>0, <1>1, <1>5 DEF S, SpectreSuits

LEMMA SpectreWords8 ==
  ASSUME NEW n \in Nat
  PROVE  \A r \in {"component_type"} :
           SpectreSuits(n, r)
<1>. DEFINE T == {"A2D", "B3SOIPD", "BJT", "BJT301", "BJT500", "BJT503",
                 "BJT504", "BJT504T", "BSIM1", "BSIM2", "BSIM3", "BSIM3V3",
                 "BSIM4", "BSIMSOI", "BSOURCE", "BTASOI", "CAPACITOR",
                 "CCCS", "CCVS", "CKTROM", "CORE", "D2A", "DELAY", "DIO500",
                 "DIODE", "EKV", "FOURIER", "GAAS", "HBT", "HISIM", "HVMOS",
                 "INDUCTOR", "INTCAP", "IPROBE", "ISOURCE", "JFET", "JUNCAP",
                 "MISNAN", "MOS0", "MOS1", "MOS1000", "MOS1100", "MOS11010",
                 "MOS11011", "MOS15", "MOS2", "MOS3", "MOS30", "MOS3002",
                 "MOS3100", "MOS40", "MOS705", "MOS902", "MOS903", "MSLINE",
                 "MTLINE", "MUTUAL_INDUCTOR", "NODCAP", "NODE", "NPORT",
                 "PARAMTEST", "PCCCS", "PCCVS", "PHY_RES", "PORT", "PSITFT",
                 "PVCCS", "PVCVS", "QUANTITY", "RDIFF", "RELAY", "RESISTOR",
                 "SCCCS", "SCCVS", "SVCCS", "SVCVS", "SWITCH", "TLINE",
                 "TOM2", "TOM3", "TRANSFORMER", "VBIC", "VCCS", "VCVS",
                 "VSOURCE", "WINDING", "ZCCCS", "ZCCVS", "ZVCCS", "ZVCVS"}
            S == T
<1>0. \A r \in {"component_type"} :
        SpectreInside(r) \subseteq Classes
  BY DEF SpectreInside, SpectreHome, SpectreStatements, SpectreAnalysisParts,
         SpectreSubcktParts, SpectreLibraryParts, SpectreComponents,
         SpectreParameters, SpectreNodes, SpectreExpressions,
         SpectreUnvisited, SpectreScopes, SpectreParameterHomes,
         SpectreNodeHomes, SpectreExpressionHomes, Classes, V!Values
<1>1. \A s \in T : Classes \subseteq SpectreHome(s)
  BY DEF SpectreHome, SpectreStatements, SpectreAnalysisParts,
         SpectreSubcktParts, SpectreLibraryParts, SpectreComponents,
         SpectreParameters, SpectreNodes, SpectreExpressions,
         SpectreUnvisited, SpectreScopes, SpectreParameterHomes,
         SpectreNodeHomes, SpectreExpressionHomes, Classes, V!Values
<1>2. ClosedSpectre(n, S) /\ T \subseteq S
  BY SpectreClosed
<1>. HIDE DEF S
<1>3. SpectreUpTo(n)!component_type \in WordsOver(S)
  <2>1. {"A2D", "B3SOIPD", "BJT", "BJT301", "BJT500", "BJT503", "BJT504",
         "BJT504T", "BSIM1", "BSIM2", "BSIM3", "BSIM3V3", "BSIM4", "BSIMSOI",
         "BTASOI", "CAPACITOR", "CCCS", "CCVS", "CKTROM", "CORE", "D2A",
         "DELAY", "DIO500", "DIODE", "EKV", "FOURIER", "GAAS", "HBT",
         "HISIM", "HVMOS", "INDUCTOR", "INTCAP", "IPROBE", "ISOURCE", "JFET",
         "JUNCAP", "MISNAN", "MOS0", "MOS1", "MOS1000", "MOS1100",
         "MOS11010", "MOS11011", "MOS15", "MOS2", "MOS3", "MOS30", "MOS3002",
         "MOS3100", "MOS40", "MOS705", "MOS902", "MOS903", "MSLINE",
         "MTLINE", "MUTUAL_INDUCTOR", "NODCAP", "NODE", "NPORT", "PARAMTEST",
         "PCCCS", "PCCVS", "PHY_RES", "PORT", "PSITFT", "PVCCS", "PVCVS",
         "QUANTITY", "RDIFF", "RELAY", "RESISTOR", "SCCCS", "SCCVS", "SVCCS",
         "SVCVS", "SWITCH", "TLINE", "TOM2", "TOM3", "TRANSFORMER", "VBIC",
         "VCCS", "VCVS", "VSOURCE", "WINDING", "ZCCCS", "ZCCVS", "ZVCCS",
         "ZVCVS", "BSOURCE"} \in SUBSET S
    BY <1>2
  <2>. QED BY <1>2, <2>1 DEF ClosedSpectre, SpectreUpTo!component_type
<1>4. \A r \in {"component_type"} :
        SpectreUpTo(n)!Rules[r] \in WordsOver(S)
  BY <1>3 DEF SpectreUpTo!Rules
<1>. QED BY <1>0, <1>1, <1>4 DEF S, SpectreSuits

LEMMA SpectreWords9 ==
  ASSUME NEW n \in Nat
  PROVE  \A r \in {"if_statement", "if_alternative", "if_body",
            "component_value_list", "node_list_item", "node_mapping",
            "node_pair", "node_branch", "node", "parameter_list_item",
            "value_access", "value_access_assign", "time_pair"} :
           SpectreSuits(n, r)
<1>. DEFINE T == {"CLOSE_CURLY", "CLOSE_ROUND", "CLOSE_SQUARE", "COEFFS",
                 "COLON", "COMMA", "DOT", "ELSE", "EOF", "EQUAL", "ID", "IF",
                 "NL", "NUMBER", "OPEN_CURLY", "OPEN_ROUND", "OPEN_SQUARE",
                 "PULSE", "PWL", "SFFM", "SIN", "WAVE", "analysis",
                 "array_expression", "component", "control", "expression",
                 "filepath", "if_alternative", "if_body", "if_statement",
                 "node", "node_branch", "node_mapping", "node_pair",
                 "parameter_id", "time_pair", "time_point", "value_access"}
            S == T
<1>0. \A r \in {"if_statement", "if_alternative", "if_body",
          "component_value_list", "node_list_item", "node_mapping",
          "node_pair", "node_branch", "node", "parameter_list_item",
          "value_access", "value_access_assign", "time_pair"} :
        SpectreInside(r) \subseteq {}
  BY DEF SpectreInside, SpectreHome, SpectreStatements, SpectreAnalysisParts,
         SpectreSubcktParts, SpectreLibraryParts, SpectreComponents,
         SpectreParameters, SpectreNodes, SpectreExpressions,
         SpectreUnvisited, SpectreScopes, SpectreParameterHomes,
         SpectreNodeHomes, SpectreExpressionHomes, Classes, V!Values
<1>1. \A s \in T : {} \subseteq SpectreHome(s)
  BY DEF SpectreHome, SpectreStatements, SpectreAnalysisParts,
         SpectreSubcktParts, SpectreLibraryParts, SpectreComponents,
         SpectreParameters, SpectreNodes, SpectreExpressions,
         SpectreUnvisited, SpectreScopes, SpectreParameterHomes,
         SpectreNodeHomes, SpectreExpressionHomes, Classes, V!Values
<1>2. ClosedSpectre(n, S) /\ T \subseteq S
  BY SpectreClosed
<1>. HIDE DEF S
<1>3. SpectreUpTo(n)!if_statement \in WordsOver(S)
  BY <1>2 DEF ClosedSpectre, SpectreUpTo!if_statement
<1>4. SpectreUpTo(n)!if_alternative \in WordsOver(S)
  BY <1>2 DEF ClosedSpectre, SpectreUpTo!if_alternative
<1>5. SpectreUpTo(n)!if_body \in WordsOver(S)
  <2>1. {"component", "analysis", "control", "if_statement", "NL"} \in SUBSET
         S
    BY <1>2
  <2>. QED BY <1>2, <2>1 DEF ClosedSpectre, SpectreUpTo!if_body
<1>6. SpectreUpTo(n)!component_value_list \in WordsOver(S)
  <2>1. {"PWL", "SIN", "SFFM", "PULSE", "WAVE", "COEFFS"} \in SUBSET S
    BY <1>2
  <2>2. {"PWL", "SIN", "SFFM", "PULSE", "WAVE", "COEFFS"} \in SUBSET S
    BY <1>2
  <2>3. {"PWL", "SIN", "SFFM", "PULSE", "WAVE", "COEFFS"} \in SUBSET S
    BY <1>2
  <2>. QED BY <1>2, <2>1, <2>2, <2>3 DEF ClosedSpectre, SpectreUpTo!component_value_list
<1>7. SpectreUpTo(n)!node_list_item \in WordsOver(S)
  <2>1. {"node", "node_mapping", "node_branch"} \in SUBSET S
    BY <1>2
  <2>. QED BY <1>2, <2>1 DEF ClosedSpectre, SpectreUpTo!node_list_item
<1>8. SpectreUpTo(n)!node_mapping \in WordsOver(S)
  BY <1>2 DEF ClosedSpectre, SpectreUpTo!node_mapping
<1>9. SpectreUpTo(n)!node_pair \in WordsOver(S)
  BY <1>2 DEF ClosedSpectre, SpectreUpTo!node_pair
<1>10. SpectreUpTo(n)!node_branch \in WordsOver(S)
  BY <1>2 DEF ClosedSpectre, SpectreUpTo!node_branch
<1>11. SpectreUpTo(n)!node \in WordsOver(S)
  <2>1. {"ID", "NUMBER"} \in SUBSET S
    BY <1>2
  <2>. QED BY <1>2, <2>1 DEF ClosedSpectre, SpectreUpTo!node
<1>12. SpectreUpTo(n)!parameter_list_item \in WordsOver(S)
  BY <1>2 DEF ClosedSpectre, SpectreUpTo!parameter_list_item
<1>13. SpectreUpTo(n)!value_access \in WordsOver(S)
  <2>1. {"expression", "node_pair", "node"} \in SUBSET S
    BY <1>2
  <2>. QED BY <1>2, <2>1 DEF ClosedSpectre, SpectreUpTo!value_access
<1>14. SpectreUpTo(n)!value_access_assign \in WordsOver(S)
  BY <1>2 DEF ClosedSpectre, SpectreUpTo!value_access_assign
<1>15. SpectreUpTo(n)!time_pair \in WordsOver(S)
  BY <1>2 DEF ClosedSpectre, SpectreUpTo!time_pair
<1>16. \A r \in {"if_statement", "if_alternative", "if_body",
          "component_value_list", "node_list_item", "node_mapping",
          "node_pair", "node_branch", "node", "parameter_list_item",
          "value_access", "value_access_assign", "time_pair"} :
        SpectreUpTo(n)!Rules[r] \in WordsOver(S)
  BY <1>3, <1>4, <1>5, <1>6, <1>7, <1>8, <1>9, <1>10, <1>11, <1>12, <1>13,
       <1>14, <1>15 DEF SpectreUpTo!Rules
<1>. QED BY <1>0, <1>1, <1>16 DEF S, SpectreSuits

LEMMA SpectreWords10 ==
  ASSUME NEW n \in Nat
  PROVE  \A r \in {"sweep", "sens", "montecarlo", "reliability",
            "reliability_content"} :
           SpectreSuits(n, r)
<1>. DEFINE T == {"EOF", "ID", "NL", "SENS", "montecarlo_content",
                 "montecarlo_export", "montecarlo_footer",
                 "montecarlo_header", "netlist_entity",
                 "reliability_content", "reliability_control",
                 "reliability_footer", "reliability_header",
                 "sens_design_parameters_list", "sens_output_variables_list",
                 "sweep_content", "sweep_footer", "sweep_header"}
            S == T
<1>0. \A r \in {"sweep", "sens", "montecarlo", "reliability",
          "reliability_content"} :
        SpectreInside(r) \subseteq {"Analysis"}
  BY DEF SpectreInside, SpectreHome, SpectreStatements, SpectreAnalysisParts,
         SpectreSubcktParts, SpectreLibraryParts, SpectreComponents,
         SpectreParameters, SpectreNodes, SpectreExpressions,
         SpectreUnvisited, SpectreScopes, SpectreParameterHomes,
         SpectreNodeHomes, SpectreExpressionHomes, Classes, V!Values
<1>1. \A s \in T : {"Analysis"} \subseteq SpectreHome(s)
  BY DEF SpectreHome, SpectreStatements, SpectreAnalysisParts,
         SpectreSubcktParts, SpectreLibraryParts, SpectreComponents,
         SpectreParameters, SpectreNodes, SpectreExpressions,
         SpectreUnvisited, SpectreScopes, SpectreParameterHomes,
         SpectreNodeHomes, SpectreExpressionHomes, Classes, V!Values
<1>2. ClosedSpectre(n, S) /\ T \subseteq S
  BY SpectreClosed
<1>. HIDE DEF S
<1>3. SpectreUpTo(n)!sweep \in WordsOver(S)
  BY <1>2 DEF ClosedSpectre, SpectreUpTo!sweep
<1>4. SpectreUpTo(n)!sens \in WordsOver(S)
  BY <1>2 DEF ClosedSpectre, SpectreUpTo!sens
<1>5. SpectreUpTo(n)!montecarlo \in WordsOver(S)
  BY <1>2 DEF ClosedSpectre, SpectreUpTo!montecarlo
<1>6. SpectreUpTo(n)!reliability \in WordsOver(S)
  BY <1>2 DEF ClosedSpectre, SpectreUpTo!reliability
<1>7. SpectreUpTo(n)!reliability_content \in WordsOver(S)
  <2>1. {"reliability_control", "netlist_entity"} \in SUBSET S
    BY <1>2
  <2>. QED BY <1>2, <2>1 DEF ClosedSpectre, SpectreUpTo!reliability_content
<1>8. \A r \in {"sweep", "sens", "montecarlo", "reliability",
          "reliability_content"} :
        SpectreUpTo(n)!Rules[r] \in WordsOver(S)
  BY <1>3, <1>4, <1>5, <1>6, <1>7 DEF SpectreUpTo!Rules
<1>. QED BY <1>0, <1>1, <1>8 DEF S, SpectreSuits

LEMMA SpectreWords11 ==
  ASSUME NEW n \in Nat
  PROVE  \A r \in {"component_analysis", "expression", "expression_pair",
            "expression_scope"} :
           SpectreSuits(n, r)
<1>. DEFINE T == {"AC", "APEX", "CLOSE_CURLY", "CLOSE_ROUND", "COLON",
                 "COMMA", "DC", "OPEN_CURLY", "OPEN_ROUND", "QUESTION_MARK",
                 "expression", "expression_atom", "expression_function_call",
                 "expression_operator", "expression_pair",
                 "expression_scope", "expression_unary"}
            S == T
<1>0. \A r \in {"component_analysis", "expression", "expression_pair",
          "expression_scope"} :
        SpectreInside(r) \subseteq SpectreExpressionHomes
  BY DEF SpectreInside, SpectreHome, SpectreStatements, SpectreAnalysisParts,
         SpectreSubcktParts, SpectreLibraryParts, SpectreComponents,
         SpectreParameters, SpectreNodes, SpectreExpressions,
         SpectreUnvisited, SpectreScopes, SpectreParameterHomes,
         SpectreNodeHomes, SpectreExpressionHomes, Classes, V!Values
<1>1. \A s \in T : SpectreExpressionHomes \subseteq SpectreHome(s)
  BY DEF SpectreHome, SpectreStatements, SpectreAnalysisParts,
         SpectreSubcktParts, SpectreLibraryParts, SpectreComponents,
         SpectreParameters, SpectreNodes, SpectreExpressions,
         SpectreUnvisited, SpectreScopes, SpectreParameterHomes,
         SpectreNodeHomes, SpectreExpressionHomes, Classes, V!Values
<1>2. ClosedSpectre(n, S) /\ T \subseteq S
  BY SpectreClosed
<1>. HIDE DEF S
<1>3. SpectreUpTo(n)!component_analysis \in WordsOver(S)
  <2>1. {"AC", "DC"} \in SUBSET S
    BY <1>2
  <2>2. {"AC", "DC"} \in SUBSET S
    BY <1>2
  <2>. QED BY <1>2, <2>1, <2>2 DEF ClosedSpectre, SpectreUpTo!component_analysis
<1>4. SpectreUpTo(n)!expression \in WordsOver(S)
  <2>1. {"expression_unary", "expression_function_call", "expression_scope",
         "expression_atom", "expression_pair"} \in SUBSET S
    BY <1>2
  <2>. QED BY <1>2, <2>1 DEF ClosedSpectre, SpectreUpTo!expression
<1>5. SpectreUpTo(n)!expression_pair \in WordsOver(S)
  BY <1>2 DEF ClosedSpectre, SpectreUpTo!expression_pair
<1>6. SpectreUpTo(n)!expression_scope \in WordsOver(S)
  <2>1. {"OPEN_ROUND", "OPEN_CURLY", "APEX"} \in SUBSET S
    BY <1>2
  <2>2. {"CLOSE_ROUND", "CLOSE_CURLY", "APEX"} \in SUBSET S
    BY <1>2
  <2>. QED BY <1>2, <2>1, <2>2 DEF ClosedSpectre, SpectreUpTo!expression_scope
<1>7. \A r \in {"component_analysis", "expression", "expression_pair",
          "expression_scope"} :
        SpectreUpTo(n)!Rules[r] \in WordsOver(S)
  BY <1>3, <1>4, <1>5, <1>6 DEF SpectreUpTo!Rules
<1>. QED BY <1>0, <1>1, <1>7 DEF S, SpectreSuits

LEMMA SpectreWords12 ==
  ASSUME NEW n \in Nat
  PROVE  \A r \in {"component", "component_attribute"} :
           SpectreSuits(n, r)
<1>. DEFINE T == {"EOF", "NL", "component_analysis", "component_attribute",
                 "component_id", "component_master", "component_value",
                 "component_value_list", "node_list", "parameter_assign"}
            S == T
<1>0. \A r \in {"component", "component_attribute"} :
        SpectreInside(r) \subseteq {"Component"}
  BY DEF SpectreInside, SpectreHome, SpectreStatements, SpectreAnalysisParts,
         SpectreSubcktParts, SpectreLibraryParts, SpectreComponents,
         SpectreParameters, SpectreNodes, SpectreExpressions,
         SpectreUnvisited, SpectreScopes, SpectreParameterHomes,
         SpectreNodeHomes, SpectreExpressionHomes, Classes, V!Values
<1>1. \A s \in T : {"Component"} \subseteq SpectreHome(s)
  BY DEF SpectreHome, SpectreStatements, SpectreAnalysisParts,
         SpectreSubcktParts, SpectreLibraryParts, SpectreComponents,
         SpectreParameters, SpectreNodes, SpectreExpressions,
         SpectreUnvisited, SpectreScopes, SpectreParameterHomes,
         SpectreNodeHomes, SpectreExpressionHomes, Classes, V!Values
<1>2. ClosedSpectre(n, S) /\ T \subseteq S
  BY SpectreClosed
<1>. HIDE DEF S
<1>3. SpectreUpTo(n)!component \in WordsOver(S)
  BY <1>2 DEF ClosedSpectre, SpectreUpTo!component
<1>4. SpectreUpTo(n)!component_attribute \in WordsOver(S)
  <2>1. {"parameter_assign", "component_analysis", "component_value_list",
         "component_value"} \in SUBSET S
    BY <1>2
  <2>. QED BY <1>2, <2>1 DEF ClosedSpectre, SpectreUpTo!component_attribute
<1>5. \A r \in {"component", "component_attribute"} :
        SpectreUpTo(n)!Rules[r] \in WordsOver(S)
  BY <1>3, <1>4 DEF SpectreUpTo!Rules
<1>. QED BY <1>0, <1>1, <1>5 DEF S, SpectreSuits

LEMMA SpectreWords13 ==
  ASSUME NEW n \in Nat
  PROVE  \A r \in {"netlist", "subckt"} :
           SpectreSuits(n, r)
<1>. DEFINE T == {"EOF", "NL", "lang", "netlist_entity", "subckt_content",
                 "subckt_footer", "subckt_header"}
            S == T
<1>0. \A r \in {"netlist", "subckt"} :
        SpectreInside(r) \subseteq {"Circuit"}
  BY DEF SpectreInside, SpectreHome, SpectreStatements, SpectreAnalysisParts,
         SpectreSubcktParts, SpectreLibraryParts, SpectreComponents,
         SpectreParameters, SpectreNodes, SpectreExpressions,
         SpectreUnvisited, SpectreScopes, SpectreParameterHomes,
         SpectreNodeHomes, SpectreExpressionHomes, Classes, V!Values
<1>1. \A s \in T : {"Circuit"} \subseteq SpectreHome(s)
  BY DEF SpectreHome, SpectreStatements, SpectreAnalysisParts,
         SpectreSubcktParts, SpectreLibraryParts, SpectreComponents,
         SpectreParameters, SpectreNodes, SpectreExpressions,
         SpectreUnvisited, SpectreScopes, SpectreParameterHomes,
         SpectreNodeHomes, SpectreExpressionHomes, Classes, V!Values
<1>2. ClosedSpectre(n, S) /\ T \subseteq S
  BY SpectreClosed
<1>. HIDE DEF S
<1>3. SpectreUpTo(n)!netlist \in WordsOver(S)
  BY <1>2 DEF ClosedSpectre, SpectreUpTo!netlist
<1>4. SpectreUpTo(n)!subckt \in WordsOver(S)
  BY <1>2 DEF ClosedSpectre, SpectreUpTo!subckt
<1>5. \A r \in {"netlist", "subckt"} :
        SpectreUpTo(n)!Rules[r] \in WordsOver(S)
  BY <1>3, <1>4 DEF SpectreUpTo!Rules
<1>. QED BY <1>0, <1>1, <1>5 DEF S, SpectreSuits

LEMMA SpectreWords14 ==
  ASSUME NEW n \in Nat
  PROVE  \A r \in {"option", "parameter_list"} :
           SpectreSuits(n, r)
<1>. DEFINE T == {"EOF", "ID", "NL", "OPTIONS", "parameter_list",
                 "parameter_list_item"}
            S == T
<1>0. \A r \in {"option", "parameter_list"} :
        SpectreInside(r) \subseteq SpectreParameterHomes
  BY DEF SpectreInside, SpectreHome, SpectreStatements, SpectreAnalysisParts,
         SpectreSubcktParts, SpectreLibraryParts, SpectreComponents,
         SpectreParameters, SpectreNodes, SpectreExpressions,
         SpectreUnvisited, SpectreScopes, SpectreParameterHomes,
         SpectreNodeHomes, SpectreExpressionHomes, Classes, V!Values
<1>1. \A s \in T : SpectreParameterHomes \subseteq SpectreHome(s)
  BY DEF SpectreHome, SpectreStatements, SpectreAnalysisParts,
         SpectreSubcktParts, SpectreLibraryParts, SpectreComponents,
         SpectreParameters, SpectreNodes, SpectreExpressions,
         SpectreUnvisited, SpectreScopes, SpectreParameterHomes,
         SpectreNodeHomes, SpectreExpressionHomes, Classes, V!Values
<1>2. ClosedSpectre(n, S) /\ T \subseteq S
  BY SpectreClosed
<1>. HIDE DEF S
<1>3. SpectreUpTo(n)!option \in WordsOver(S)
  BY <1>2 DEF ClosedSpectre, SpectreUpTo!option
<1>4. SpectreUpTo(n)!parameter_list \in WordsOver(S)
  BY <1>2 DEF ClosedSpectre, SpectreUpTo!parameter_list
<1>5. \A r \in {"option", "parameter_list"} :
        SpectreUpTo(n)!Rules[r] \in WordsOver(S)
  BY <1>3, <1>4 DEF SpectreUpTo!Rules
<1>. QED BY <1>0, <1>1, <1>5 DEF S, SpectreSuits

LEMMA SpectreWords15 ==
  ASSUME NEW n \in Nat
  PROVE  \A r \in {"library"} :
           SpectreSuits(n, r)
<1>. DEFINE T == {"library_content", "library_footer", "library_header"}
            S == T
<1>0. \A r \in {"library"} :
        SpectreInside(r) \subseteq {"Library"}
  BY DEF SpectreInside, SpectreHome, SpectreStatements, SpectreAnalysisParts,
         SpectreSubcktParts, SpectreLibraryParts, SpectreComponents,
         SpectreParameters, SpectreNodes, SpectreExpressions,
         SpectreUnvisited, SpectreScopes, SpectreParameterHomes,
         SpectreNodeHomes, SpectreExpressionHomes, Classes, V!Values
<1>1. \A s \in T : {"Library"} \subseteq SpectreHome(s)
  BY DEF SpectreHome, SpectreStatements, SpectreAnalysisParts,
         SpectreSubcktParts, SpectreLibraryParts, SpectreComponents,
         SpectreParameters, SpectreNodes, SpectreExpressions,
         SpectreUnvisited, SpectreScopes, SpectreParameterHomes,
         SpectreNodeHomes, SpectreExpressionHomes, Classes, V!Values
<1>2. ClosedSpectre(n, S) /\ T \subseteq S
  BY SpectreClosed
<1>. HIDE DEF S
<1>3. SpectreUpTo(n)!library \in WordsOver(S)
  BY <1>2 DEF ClosedSpectre, SpectreUpTo!library
<1>4. \A r \in {"library"} :
        SpectreUpTo(n)!Rules[r] \in WordsOver(S)
  BY <1>3 DEF SpectreUpTo!Rules
<1>. QED BY <1>0, <1>1, <1>4 DEF S, SpectreSuits

LEMMA SpectreWords16 ==
  ASSUME NEW n \in Nat
  PROVE  \A r \in {"standard_include"} :
           SpectreSuits(n, r)
<1>. DEFINE T == {"EOF", "INCLUDE", "NL", "filepath", "parameter_assign"}
            S == T
<1>0. \A r \in {"standard_include"} :
        SpectreInside(r) \subseteq {"Include"}
  BY DEF SpectreInside, SpectreHome, SpectreStatements, SpectreAnalysisParts,
         SpectreSubcktParts, SpectreLibraryParts, SpectreComponents,
         SpectreParameters, SpectreNodes, SpectreExpressions,
         SpectreUnvisited, SpectreScopes, SpectreParameterHomes,
         SpectreNodeHomes, SpectreExpressionHomes, Classes, V!Values
<1>1. \A s \in T : {"Include"} \subseteq SpectreHome(s)
  BY DEF SpectreHome, SpectreStatements, SpectreAnalysisParts,
         SpectreSubcktParts, SpectreLibraryParts, SpectreComponents,
         SpectreParameters, SpectreNodes, SpectreExpressions,
         SpectreUnvisited, SpectreScopes, SpectreParameterHomes,
         SpectreNodeHomes, SpectreExpressionHomes, Classes, V!Values
<1>2. ClosedSpectre(n, S) /\ T \subseteq S
  BY SpectreClosed
<1>. HIDE DEF S
<1>3. SpectreUpTo(n)!standard_include \in WordsOver(S)
  BY <1>2 DEF ClosedSpectre, SpectreUpTo!standard_include
<1>4. \A r \in {"standard_include"} :
        SpectreUpTo(n)!Rules[r] \in WordsOver(S)
  BY <1>3 DEF SpectreUpTo!Rules
<1>. QED BY <1>0, <1>1, <1>4 DEF S, SpectreSuits

LEMMA SpectreWords17 ==
  ASSUME NEW n \in Nat
  PROVE  \A r \in {"array_expression"} :
           SpectreSuits(n, r)
<1>. DEFINE T == {"CLOSE_SQUARE", "OPEN_SQUARE", "array_item"}
            S == T
<1>0. \A r \in {"array_expression"} :
        SpectreInside(r) \subseteq {"ValueList"}
  BY DEF SpectreInside, SpectreHome, SpectreStatements, SpectreAnalysisParts,
         SpectreSubcktParts, SpectreLibraryParts, SpectreComponents,
         SpectreParameters, SpectreNodes, SpectreExpressions,
         SpectreUnvisited, SpectreScopes, SpectreParameterHomes,
         SpectreNodeHomes, SpectreExpressionHomes, Classes, V!Values
<1>1. \A s \in T : {"ValueList"} \subseteq SpectreHome(s)
  BY DEF SpectreHome, SpectreStatements, SpectreAnalysisParts,
         SpectreSubcktParts, SpectreLibraryParts, SpectreComponents,
         SpectreParameters, SpectreNodes, SpectreExpressions,
         SpectreUnvisited, SpectreScopes, SpectreParameterHomes,
         SpectreNodeHomes, SpectreExpressionHomes, Classes, V!Values
<1>2. ClosedSpectre(n, S) /\ T \subseteq S
  BY SpectreClosed
<1>. HIDE DEF S
<1>3. SpectreUpTo(n)!array_expression \in WordsOver(S)
  BY <1>2 DEF ClosedSpectre, SpectreUpTo!array_expression
<1>4. \A r \in {"array_expression"} :
        SpectreUpTo(n)!Rules[r] \in WordsOver(S)
  BY <1>3 DEF SpectreUpTo!Rules
<1>. QED BY <1>0, <1>1, <1>4 DEF S, SpectreSuits

LEMMA SpectreWords18 ==
  ASSUME NEW n \in Nat
  PROVE  \A r \in {"node_list"} :
           SpectreSuits(n, r)
<1>. DEFINE T == {"CLOSE_ROUND", "OPEN_ROUND", "node_list_item"}
            S == T
<1>0. \A r \in {"node_list"} :
        SpectreInside(r) \subseteq SpectreNodeHomes
  BY DEF SpectreInside, SpectreHome, SpectreStatements, SpectreAnalysisParts,
         SpectreSubcktParts, SpectreLibraryParts, SpectreComponents,
         SpectreParameters, SpectreNodes, SpectreExpressions,
         SpectreUnvisited, SpectreScopes, SpectreParameterHomes,
         SpectreNodeHomes, SpectreExpressionHomes, Classes, V!Values
<1>1. \A s \in T : SpectreNodeHomes \subseteq SpectreHome(s)
  BY DEF SpectreHome, SpectreStatements, SpectreAnalysisParts,
         SpectreSubcktParts, SpectreLibraryParts, SpectreComponents,
         SpectreParameters, SpectreNodes, SpectreExpressions,
         SpectreUnvisited, SpectreScopes, SpectreParameterHomes,
         SpectreNodeHomes, SpectreExpressionHomes, Classes, V!Values
<1>2. ClosedSpectre(n, S) /\ T \subseteq S
  BY SpectreClosed
<1>. HIDE DEF S
<1>3. SpectreUpTo(n)!node_list \in WordsOver(S)
  BY <1>2 DEF ClosedSpectre, SpectreUpTo!node_list
<1>4. \A r \in {"node_list"} :
        SpectreUpTo(n)!Rules[r] \in WordsOver(S)
  BY <1>3 DEF SpectreUpTo!Rules
<1>. QED BY <1>0, <1>1, <1>4 DEF S, SpectreSuits

LEMMA SpectreNamesAre ==
  ASSUME NEW n
  PROVE  DOMAIN SpectreUpTo(n)!Rules =
           {"netlist", "netlist_title", "netlist_entity", "include",
            "standard_include", "cpp_include", "ahdl_include", "lang",
            "library", "library_header", "library_content", "library_footer",
            "section", "section_header", "section_content", "section_footer",
            "analogmodel", "subckt", "subckt_header", "subckt_content",
            "subckt_footer", "if_statement", "if_alternative", "if_body",
            "analysis", "ac", "acmatch", "dc", "dcmatch", "envlp", "sp",
            "stb", "sweep", "sweep_header", "sweep_content", "sweep_footer",
            "tdr", "tran", "xf", "pac", "pdisto", "pnoise", "psp", "pss",
            "pxf", "pz", "qpac", "qpnoise", "qpsp", "qpss", "qpxf", "sens",
            "sens_output_variables_list", "sens_design_parameters_list",
            "sens_analyses_list", "montecarlo", "montecarlo_header",
            "montecarlo_content", "montecarlo_export", "montecarlo_footer",
            "noise", "checklimit", "global", "model", "model_name",
            "model_master", "control", "alter", "altergroup",
            "altergroup_header", "altergroup_content", "altergroup_footer",
            "assert_statement", "check_statement", "save", "option", "set",
            "shell", "info", "nodeset", "ic", "statistics",
            "statistics_header", "statistics_content", "statistics_footer",
            "process", "mismatch", "correlate", "truncate", "vary",
            "reliability", "reliability_header", "reliability_content",
            "reliability_footer", "reliability_control",
            "global_declarations", "component", "component_id",
            "component_master", "component_attribute", "component_value",
            "component_value_list", "component_analysis", "node_list",
            "node_list_item", "node_mapping", "node_pair", "node_branch",
            "node", "expression", "expression_unary",
            "expression_function_call", "expression_pair",
            "expression_scope", "expression_operator", "expression_atom",
            "parameter_list", "parameter_list_item", "array_expression",
            "array_item", "parameter_assign", "parameter_id",
            "parameter_access", "value_access", "value_access_assign",
            "time_pair", "time_point", "filepath", "filepath_element",
            "keyword", "analysis_type", "component_type"}
BY DEF SpectreUpTo!Rules

LEMMA SpectreWordsFit ==
  ASSUME NEW n \in Nat, NEW r \in DOMAIN SpectreUpTo(n)!Rules
  PROVE  SpectreSuits(n, r)
BY SpectreNamesAre, SpectreWords1, SpectreWords2, SpectreWords3,
   SpectreWords4, SpectreWords5, SpectreWords6, SpectreWords7, SpectreWords8,
   SpectreWords9, SpectreWords10, SpectreWords11, SpectreWords12,
   SpectreWords13, SpectreWords14, SpectreWords15, SpectreWords16,
   SpectreWords17, SpectreWords18
=============================================================================
