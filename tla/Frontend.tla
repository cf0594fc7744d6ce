------------------------------ MODULE Frontend ------------------------------
(***************************************************************************)
(* The two netlist frontends of EDACurry, building an object tree.  The    *)
(* generated parser has turned a file into contexts; a frontend visits     *)
(* them and keeps the objects under construction on a stack: whatever a    *)
(* visit creates is added to the object on top.                            *)
(*                                                                         *)
(* The netlist is not given: at each visit the machine chooses a word of   *)
(* the grammar for the context, so that its behaviours are the visits of   *)
(* every netlist within the bounds.  After a syntax error the parser goes  *)
(* on with a context that stops short of its word and may have swallowed   *)
(* tokens that do not belong to it.                                        *)
(***************************************************************************)
EXTENDS Naturals, Sequences, FiniteSets

CONSTANTS
  Langs,      \* the frontends under consideration
  MaxRepeat,  \* how often a repeated part of a rule occurs at most
  MaxDepth,   \* how deep the netlist is nested at most
  Deepens,    \* the steps <<rule, child>> that count as nesting
  MaxErrors,  \* how many contexts of a netlist the parser recovers at most
  Skipped,    \* what a recovering parser leaves at the end of a context
  MaxPending  \* how many visits wait at most when a part is repeated

Eldo == INSTANCE EldoFrontend
Spectre == INSTANCE SpectreFrontend
V == INSTANCE Visits

ASSUME FrontendAssumption ==
  /\ Langs # {} /\ Langs \subseteq {"eldo", "spectre"}
  /\ MaxRepeat \in Nat \ {0}
  /\ {MaxDepth, MaxErrors, MaxPending} \subseteq Nat

VARIABLES
  language,     \* the language of the netlist
  frames,   \* the visit functions that have been called and not returned
  stack,    \* the objects under construction
  outcome,  \* how far the frontend has come
  result,   \* what the last visit returned, where a caller looks at it
  errors,   \* the contexts that the parser has recovered
  added,    \* the object added in the last step, what to, and how
  lost      \* what the last visit left out of the tree: <<visitor, symbol>>

vars == <<language, frames, stack, outcome, result, errors, added, lost>>

(* The two languages, with parts that are repeated up to n times.           *)
EldoUpTo(n) == INSTANCE EldoGrammar WITH MaxRepeat <- n
SpectreUpTo(n) == INSTANCE SpectreGrammar WITH MaxRepeat <- n

EldoRules == EldoUpTo(MaxRepeat)!Rules
SpectreRules == SpectreUpTo(MaxRepeat)!Rules

(* The words in which no part is repeated. *)
EldoOnceRules == EldoUpTo(1)!Rules
SpectreOnceRules == SpectreUpTo(1)!Rules
Words(l, r) == IF l = "eldo" THEN EldoRules[r] ELSE SpectreRules[r]

(* What a parser that recovers from an error leaves of those words. *)
CutShort(L) == UNION {{SubSeq(w, 1, n) : n \in 0..(Len(w) - 1)} : w \in L}
EldoCuts == [r \in DOMAIN EldoRules |-> CutShort(EldoOnceRules[r])]
SpectreCuts == [r \in DOMAIN SpectreRules |-> CutShort(SpectreOnceRules[r])]
Cuts(l, r) == IF l = "eldo" THEN EldoCuts[r] ELSE SpectreCuts[r]

EldoNames == DOMAIN EldoRules
SpectreNames == DOMAIN SpectreRules
Once(l, r) == IF l = "eldo" THEN EldoOnceRules[r] ELSE SpectreOnceRules[r]
IsRule(l, s) == s \in (IF l = "eldo" THEN EldoNames ELSE SpectreNames)

(* What it skips are tokens: an error node is a leaf of the parse tree.     *)
ASSUME SkippedAssumption ==
  Skipped \subseteq Seq(STRING \ (EldoNames \cup SpectreNames))

(* The frontend's visit function of a rule. *)
Plan(l, r, w, top) == IF l = "eldo" THEN Eldo!Plan(r, w, top)
                                    ELSE Spectre!Plan(r, w, top)

(* The symbols that say something of the circuit by their own text. *)
SpectreTelling ==
  {"ID", "NUMBER", "STRING", "PERCENTAGE", "expression_operator", "filepath"}
EldoTelling == SpectreTelling \cup Eldo!Named
Telling(l) == IF l = "eldo" THEN EldoTelling ELSE SpectreTelling

(* The rules among S that have no visitor of their own, and nothing to tell *)
(* but what those of Q have: their visits leave everything as it is.  A     *)
(* path is told by the statement it stands in.                              *)
Quiet(l, S, Q) ==
  Q \cup {r \in S : \A w \in Words(l, r) :
     /\ \A i \in DOMAIN w :
           (w[i] \in Q \/ ~IsRule(l, w[i])) /\ w[i] \notin Telling(l)
     /\ Plan(l, r, w, "none") = V!Visit(w, {})}
Paths == {"filepath", "filepath_element"}
EldoSilent == Quiet("eldo", EldoNames, Quiet("eldo", EldoNames, Paths))
SpectreSilent ==
  Quiet("spectre", SpectreNames, Quiet("spectre", SpectreNames, Paths))
Silent(l) == IF l = "eldo" THEN EldoSilent ELSE SpectreSilent
-----------------------------------------------------------------------------
(* The object on top of the stack. *)
Back == IF stack = <<>> THEN V!Nothing ELSE stack[Len(stack)]

(* Fault: add_to_parent knows nothing of library definitions. *)
ScopesWithoutLibraries == {"Circuit", "ControlScope", "Subckt"}

(* The classes with a list for whatever is added to them. *)
Scopes == {"Circuit", "ControlScope", "Subckt", "LibraryDef"}

(* What add_to_parent does with an object of class c, given the parent. *)
Reception(parent, c) ==
  LET p == parent.class
      value == c \in V!Values
      Either(C) == IF c \in C THEN "held" ELSE IF value THEN "wrapped"
                   ELSE "thrown"
  IN  CASE p = "none" -> "root"
        [] p \in Scopes -> "held"
        [] p = "Analysis" -> IF language = "spectre" /\ ~value THEN "held"
                             ELSE Either({"Parameter"})
        [] p = "Component" -> Either({"Node", "Parameter"})
        [] p = "FunctionCall" -> Either({"Parameter"})
        [] p \in {"Control", "Include", "Model"} ->
             IF c = "Parameter" THEN "held" ELSE "thrown"
        [] p = "ValueList" -> IF value THEN "held"
                              ELSE IF language = "eldo" THEN "null" ELSE "aborted"
        [] p \in {"Expression", "ExpressionUnary", "Parameter"} ->
             IF parent.free = <<>> THEN "thrown"
             ELSE IF value THEN Head(parent.free) ELSE "dropped"
        [] OTHER -> "dropped"

Failures == {"thrown", "aborted", "crashed"}

(* Fault: the places of an object are filled from the last to the first. *)
ServedLast(o) == V!Object(o.class, SubSeq(o.free, 1, Len(o.free) - 1))

(* An object whose next free place is taken. *)
Served(o) == V!Object(o.class, Tail(o.free))

(* Fault: the oldest object with a free place gets it. *)
AddedToOldest(s, how) ==
  IF how \in {"first", "second", "value", "left", "right"}
  THEN LET i == CHOOSE i \in DOMAIN s :
                  /\ s[i].free # <<>>
                  /\ \A j \in 1..(i - 1) : s[j].free = <<>>
       IN  [s EXCEPT ![i] = Served(s[i])]
  ELSE s

(* The stack when the object on top of it has got another one. *)
AddedTo(s, how) ==
  IF how \in {"first", "second", "value", "left", "right"}
  THEN [s EXCEPT ![Len(s)] = Served(s[Len(s)])]
  ELSE s

(* The stack when the object on top of it has got what belongs in place. *)
Assigned(s, place) ==
  IF s # <<>> /\ s[Len(s)].free # <<>> /\ Head(s[Len(s)].free) = place
  THEN [s EXCEPT ![Len(s)] = Served(s[Len(s)])]
  ELSE s

NotAdded == [to |-> "none", what |-> "none", how |-> "none"]

AddToParent(c) == [to |-> Back.class, what |-> c, how |-> Reception(Back, c)]
-----------------------------------------------------------------------------
Top == frames[Len(frames)]

Opens(f) == IF f.opens = "none" THEN 0 ELSE 1

(* Fault: an object is not taken from the stack. *)
PopNothing == stack

(* The stack when the running visit function has popped what it pushed. *)
Pop == SubSeq(stack, 1, Len(stack) - Opens(Top))

Frame(height, opens, todo, text, returns, p) ==
  [height |-> height, opens |-> opens, todo |-> todo, text |-> text,
   returns |-> returns, casts |-> p.casts, after |-> p.after]

Init ==
  /\ language \in Langs
  /\ frames = <<Frame(0, "none", <<V!Accept("netlist")>>, FALSE, "null",
                      V!Visit(<<>>, {}))>>
  /\ stack = <<>>
  /\ outcome = "parsing"
  /\ result = "null"
  /\ errors = 0
  /\ added = NotAdded
  /\ lost = {}

(* A visit function is called on item of the running one, or its children  *)
(* are visited in its place.                                               *)
Calling(item, w) ==
  CASE item.how = "accept" -> Plan(language, item.rule, w, Back.class)
    [] item.how = "children" -> V!Visit(w, {})
    [] item.how = "Parameter" ->
         [V!Opening("Parameter", w, {}) EXCEPT !.opens.free = <<"right">>]

(* A number in an expression that cannot be read as one (Spectre). *)
Unread(item, w) ==
  /\ language = "spectre" /\ item.how = "accept"
  /\ item.rule \in {"expression_atom", "array_item"} /\ V!Has(w, "NUMBER")

(* What the visit of item may do: the value of a number is not modelled. *)
Plans(item, w) ==
  {Calling(item, w)} \cup
    IF Unread(item, w) THEN {Spectre!VisitUnread(w)} ELSE {}

(* The elements of s at the positions K, in their order. *)
Chosen(s, K) ==
  LET upto[n \in 0..Len(s)] ==
        IF n = 0 THEN <<>>
        ELSE IF n \in K THEN Append(upto[n - 1], s[n]) ELSE upto[n - 1]
  IN  upto[Len(s)]

(* The visits of a plan for item that can change anything. *)
Relevant(item, p) ==
  LET Matters(i) == \/ i.rule = "null"
                    \/ i.how = "read"
                    \/ /\ IsRule(language, i.rule)
                       /\ i.rule \notin Silent(language)
      Deep(i) == [i EXCEPT !.depth = IF <<item.rule, i.rule>> \in Deepens
                                     THEN item.depth + 1 ELSE item.depth]
      todo == Chosen(p.visits, {i \in DOMAIN p.visits : Matters(p.visits[i])})
  IN  [i \in DOMAIN todo |-> Deep(todo[i])]

(* What p leaves out of the tree, and who does: the visitor of the rule, the *)
(* one that bypasses it, or the reading of a number.                        *)
Losses(item, w, p) ==
  LET Visited(s) == \E j \in DOMAIN p.visits : p.visits[j].rule = s
      by == IF p = Spectre!VisitUnread(w) THEN "to_number"
            ELSE IF item.how = "accept" THEN item.rule ELSE item.how
  IN  {<<by, w[i]>> : i \in
         {i \in DOMAIN w \ p.kept :
            \/ w[i] \in Telling(language)
            \/ /\ IsRule(language, w[i])
               /\ w[i] \notin Silent(language)
               /\ ~Visited(w[i])}}

Pending(fs, todo) ==
  LET waiting[i \in 0..Len(fs)] ==
        IF i = 0 THEN Len(todo) ELSE waiting[i - 1] + Len(fs[i].todo)
  IN  waiting[Len(fs)]

(* Only the visitor of a component's value looks at what a visit returns. *)
Awaited(r) == IF \E i \in DOMAIN frames : frames[i].casts THEN r ELSE "null"

(* What the caller of a visit gets: visitChildren returns what the visit of *)
(* the last child returned, which is null for a token.                      *)
Returning(p, w, todo) ==
  IF p.returns = "children" /\ (todo = <<>> \/ todo[Len(todo)].rule # w[Len(w)])
  THEN "null" ELSE p.returns

(* The running visit function has done with the first of its items. *)
Popped == [frames EXCEPT ![Len(frames)].todo = Tail(Top.todo)]

(* A guard that finds nothing throws, a pointer that is null crashes. *)
Failure(fault) == IF fault = "thrown" THEN "thrown" ELSE "crashed"

(* It ends the frontend: by an exception, an abort or a crash. *)
Fail(how, a) ==
  /\ outcome' = how
  /\ added' = a
  /\ lost' = {}
  /\ UNCHANGED <<language, frames, stack, result>>

(* The visit function of item does as its plan p says on a context with the *)
(* children w: of its visits, todo can change anything.  A word that repeats *)
(* a part is taken only if few visits wait.                                 *)
Following(item, p, todo, w, long) ==
  LET text == Top.text \/ item.text
      opens == p.opens.class
      c == IF opens # "none" /\ p.attached THEN opens ELSE p.adds
      a == IF c = "none" THEN NotAdded ELSE AddToParent(c)
      named == Assigned(AddedTo(stack, a.how), p.sets)
  IN  /\ long => Pending(Popped, todo) <= MaxPending
      /\ \A i \in DOMAIN todo : todo[i].depth <= MaxDepth
      /\ IF item.must # {} /\ ~\E t \in item.must : V!Has(w, t)
         THEN Fail(Failure(item.lacking), NotAdded)
         ELSE IF p.needs # {} /\ Back.class \notin p.needs
         THEN Fail("aborted", NotAdded)
         ELSE IF p.fault # "" THEN Fail(Failure(p.fault), NotAdded)
         ELSE IF a.how \in Failures THEN Fail(a.how, a)
         ELSE /\ frames' = Append(Popped, Frame(Len(stack), opens, todo, text,
                                            Awaited(Returning(p, w, todo)), p))
              /\ stack' = IF opens = "none" THEN named
                          ELSE Append(named, V!Object(opens, p.opens.free))
              /\ added' = a
              /\ lost' = IF text THEN {} ELSE Losses(item, w, p)
              /\ result' = "null"
              /\ UNCHANGED <<language, outcome>>

(* The visit function of the next item is called. *)
Visiting(w, long) ==
  LET item == Head(Top.todo)
  IN  \E p \in Plans(item, w) : Following(item, p, Relevant(item, p), w, long)

(* A null pointer is followed, or a child is read where it stands. *)
Reading(w) ==
  LET item == Head(Top.todo)
  IN  IF \E t \in item.must : V!Has(w, t)
      THEN /\ frames' = Popped
           /\ added' = NotAdded
           /\ lost' = {}
           /\ UNCHANGED <<language, stack, outcome, result>>
      ELSE Fail(Failure(item.lacking), NotAdded)

Handle(w, long) ==
  IF Head(Top.todo).how = "read" THEN Reading(w) ELSE Visiting(w, long)

IsLong(w) == w \notin Once(language, Head(Top.todo).rule)

Enter ==
  /\ outcome = "parsing" /\ Top.todo # <<>>
  /\ Head(Top.todo).rule # "null"
  /\ \E w \in Words(language, Head(Top.todo).rule) : Handle(w, IsLong(w))
  /\ UNCHANGED errors

EnterAfterError ==
  /\ outcome = "parsing" /\ Top.todo # <<>>
  /\ Head(Top.todo).rule # "null"
  /\ errors < MaxErrors
  /\ errors' = errors + 1
  /\ \E w \in Cuts(language, Head(Top.todo).rule) : \E s \in Skipped :
       Handle(w \o s, FALSE)

FollowNull ==
  /\ outcome = "parsing" /\ Top.todo # <<>>
  /\ Head(Top.todo).rule = "null"
  /\ Fail("crashed", NotAdded)
  /\ UNCHANGED errors

(* The running visit function returns: its object is taken from the stack  *)
(* and, for a list of values, added only now.                              *)
Leave ==
  /\ outcome = "parsing" /\ Top.todo = <<>> /\ Len(frames) > 1
  /\ UNCHANGED <<language, errors>>
  /\ lost' = {}
  /\ LET below == Pop
         parent == IF below = <<>> THEN V!Nothing ELSE below[Len(below)]
         a == IF Top.after = "none" THEN NotAdded
              ELSE [to |-> parent.class, what |-> Top.after,
                    how |-> Reception(parent, Top.after)]
     IN  /\ added' = a
         /\ outcome' = CASE a.how \in Failures -> a.how
                         [] Top.casts /\ result # "Value" -> "thrown"
                         [] OTHER -> outcome
         /\ frames' = SubSeq(frames, 1, Len(frames) - 1)
         /\ stack' = AddedTo(below, a.how)
         /\ result' = Awaited(IF Top.returns \in {"children", "last"}
                               THEN result ELSE Top.returns)

(* The netlist has been visited and its root is handed out. *)
Finish ==
  /\ outcome = "parsing" /\ Top.todo = <<>> /\ Len(frames) = 1
  /\ outcome' = "done"
  /\ added' = NotAdded
  /\ lost' = {}
  /\ UNCHANGED <<language, frames, stack, result, errors>>

Ended == outcome # "parsing" /\ UNCHANGED vars

Next == Enter \/ EnterAfterError \/ FollowNull \/ Leave \/ Finish \/ Ended

Spec == Init /\ [][Next]_vars
-----------------------------------------------------------------------------
(* Type invariant: the classes and outcomes that the sources know, objects  *)
(* that are filled from their first place to the last, and a netlist within *)
(* the bounds.                                                              *)
Classes == V!Values \cup {"none", "Circuit", "Subckt", "Analysis", "Component",
             "Control", "ControlScope", "Include", "Library", "LibraryDef",
             "Model", "Node", "Parameter"}
PlacesLeft ==
  {<<>>, <<"first", "second">>, <<"second">>, <<"value">>, <<"left", "right">>,
   <<"right">>}

TypeOK ==
  /\ language \in Langs
  /\ outcome \in Failures \cup {"parsing", "done"}
  /\ errors \in 0..MaxErrors
  /\ result \in {"null", "Value", "other"}
  /\ \A i \in DOMAIN stack :
        stack[i].class \in Classes /\ stack[i].free \in PlacesLeft
  /\ \A i \in DOMAIN frames :
        /\ frames[i].opens \in Classes
        /\ \A j \in DOMAIN frames[i].todo :
              frames[i].todo[j].depth \in 0..MaxDepth

(* The stack of objects follows the calls: each visit function that opened  *)
(* an object finds it where it pushed it, whatever the visits in between    *)
(* have done, and every object on the stack belongs to one of them.  So     *)
(* back() is the object of the nearest visit that opened one, and pop()     *)
(* takes the caller's own.                                                  *)
StackMatchesCalls ==
  /\ Len(stack) = Top.height + Opens(Top)
  /\ frames[1].height = 0
  /\ \A i \in 1..(Len(frames) - 1) :
        frames[i + 1].height = frames[i].height + Opens(frames[i])
  /\ \A i \in 1..Len(frames) :
        frames[i].opens # "none" =>
          stack[frames[i].height + 1].class = frames[i].opens

(* No visitor finds an object of another class on top of the stack than the *)
(* one it casts to, and no list is given anything but a value: to_check     *)
(* never ends the program, not even after a syntax error.                   *)
CastsHold == outcome # "aborted"

(* What a frontend creates reaches the tree.  add_to_parent leaves out only *)
(* the parts of a hierarchical node (Eldo), which the name of the whole     *)
(* node repeats, and what stands in a library (Spectre); no null pointer    *)
(* is put into a list; and an object that is refused is one value too many, *)
(* never of a class that the object around it cannot hold.                  *)
NothingIsDropped ==
  /\ added.how \in {"dropped", "null"} =>
       \/ added.to = "Node" /\ added.what = "Node"
       \/ language = "spectre" /\ added.to = "Library"
  /\ added.how = "thrown" =>
       /\ added.what \in V!Values
       /\ added.to \in {"Expression", "ExpressionUnary", "Parameter"}

(* The grammar makes up for the pointers the visitors follow unguarded: a   *)
(* netlist without syntax errors brings a frontend down only in the         *)
(* keywords of .op (Eldo) and at a string as a component's value (Spectre). *)
NullsAreExcluded ==
  (errors = 0 /\ outcome = "crashed") =>
    IF language = "eldo"
    THEN Back.class = "Analysis" /\ Head(Top.todo).rule = "null"
    ELSE Top.casts

(* What the frontends leave out, by visitor: the keys and units of file     *)
(* statements, the names repeated at the end of a block, values of a table  *)
(* or of a wave, and operators where an expression is visited by another    *)
(* visitor than its own or has not two operands, among others.  (NOISE is a *)
(* component's name only in a noise source.)                                *)
EldoDiscarded ==
  ({"call_tcl", "call_tcl_when", "chrent", "defwave", "dspf_include",
    "ffile_singleline", "ffile_storage_format", "ffile_tabulation",
    "ffile_unit", "ic_subckt", "interp_type", "library_key", "library_name",
    "op_selective", "subckt_footer"} \X {"ID"})
    \cup ({"ffile", "model", "use_tcl"} \X {"filepath"})
    \cup ({"noise", "component_positional_keywork"} \X {"NOISE"})
    \cup ({"expression", "children", "Parameter"} \X {"expression_operator"})
    \cup {<<"op_selective", "expression">>,
           <<"component_table", "expression_list">>}
SpectreDiscarded ==
  ({"ahdl_include", "alter", "altergroup_header", "analogmodel",
    "assert_statement", "check_statement", "correlate", "library_footer",
    "parameter_access", "parameter_id", "reliability_control",
    "reliability_header", "section_footer", "section_header", "sens", "set",
    "shell", "subckt_footer", "vary"} \X {"ID"})
    \cup {<<"parameter_access", "NUMBER">>, <<"component_value", "STRING">>,
           <<"component_value_list", "time_pair">>,
           <<"expression", "expression_operator">>,
           <<"to_number", "NUMBER">>}

(* Whatever else a netlist without syntax errors says by a name, a number,  *)
(* a string, a path or an operator goes into the tree.  A number that stod  *)
(* refuses does not: its visit returns nothing (Spectre).                   *)
TokensAreKept ==
  errors = 0 =>
    lost \subseteq (IF language = "eldo" THEN EldoDiscarded
                    ELSE SpectreDiscarded)

(* A visit changes no object but the one on top of the stack when it begins *)
(* and when it returns: whatever lies below is as its visitor left it.      *)
OnlyTheTopChanges ==
  [][\A i \in 1..Len(stack) :
       (i < Len(stack) /\ i < Len(stack')) => stack'[i] = stack[i]]_vars
=============================================================================
