-------------------------------- MODULE Words --------------------------------
(***************************************************************************)
(* Sets of words, to write a grammar rule as the set of sequences of       *)
(* children that its parser function can build.                            *)
(***************************************************************************)
EXTENDS Naturals, Sequences

CONSTANT MaxRepeat  \* how often a repeated part of a rule occurs at most

(* A word of the left set followed by a word of the right one. *)
L ++ M == {u \o v : u \in L, v \in M}

(* One of these symbols. *)
OneOf(S) == {<<s>> : s \in S}

Opt(L) == L \cup {<<>>}

(* From lo to MaxRepeat words of L, one after the other. *)
Repeated(L, lo) ==
  LET times[n \in 0..MaxRepeat] ==
        IF n = 0 THEN {<<>>} ELSE times[n - 1] ++ L
  IN  UNION {times[n] : n \in lo..MaxRepeat}

Some(L) == Repeated(L, 1)
Many(L) == Repeated(L, 0)
=============================================================================
