------------------------------- MODULE AdaTexts -------------------------------
(* Inputs for DeclarationScan, written out from Ada declarations: a package   *)
(* of up to three items out of one and two line subprograms, overloads,       *)
(* records over several lines, discriminants, variants, identifier lists,     *)
(* types, enumerations, instances, nested and generic packages and comments;  *)
(* and two items the scan refuses, a declaration longer than MaxLines and     *)
(* discriminants that go on on a line of their own.                           *)
EXTENDS Integers, Sequences

L(head, names, text, marks) ==
    [head |-> head, names |-> names, text |-> text, marks |-> marks,
     literals |-> << >>, words |-> << >>]
WithLiterals(line, literals) == [line EXCEPT !.literals = literals]
WithWords(line, words) == [line EXCEPT !.words = words]
Comment == L("comment", << >>, "", << >>)

(* An item: its lines, what it declares as <<line, name, scope, said>>, and   *)
(* the members that are reported at one of its lines.                         *)
Member(line, kind, scope, said) ==
    [line |-> line, kind |-> kind, name |-> scope[Len(scope)], under |-> scope,
     scope |-> scope, signature |-> said]
With(lines, declared, members) ==
    [lines |-> lines, declared |-> declared, members |-> members, refused |-> FALSE]
Item(lines, declared) == With(lines, declared, {})
Refused(lines) == [Item(lines, {}) EXCEPT !.refused = TRUE]

Short(p) == Item(<<L("sub", <<<<"F", 4>>>>, p, <<"(", ";", ")", ";">>)>>,
                 {<<1, "F", <<"F">>, <<p>>>>})
Split(p) == Item(<<L("sub", <<<<"F", 4>>>>, "f", <<"(", ";">>),
                   L("object", <<<<"X", 7>>>>, p, <<")", ";">>)>>,
                 {<<1, "F", <<"F">>, <<"f", p>>>>})
Record(r) == With(<<L("type", <<<<r, 4>>>>, "r", <<"is", "record">>),
                    L("object", <<<<"X", 5>>, <<"Y", 6>>>>, "xy", <<";">>),
                    Comment, L("endrecord", << >>, "", <<";">>)>>,
                  {<<1, r, <<r>>, <<"r">>>>, <<2, "X", <<r, "X">>, <<"xy">>>>,
                   <<2, "Y", <<r, "Y">>, <<"xy">>>>},
                  {Member(1, "component", <<r, "X">>, <<"xy">>),
                   Member(1, "component", <<r, "Y">>, <<"xy">>)})
Variant == With(<<L("type", <<<<"V", 4>>>>, "v", << >>),
                  WithWords(L("other", << >>, "d", <<"(", ")">>), <<"K">>),
                  L("other", << >>, "is", <<"is", "record">>),
                  L("other", << >>, "case", << >>),
                  L("object", <<<<"X", 5>>>>, "x", <<";">>),
                  L("endcase", << >>, "", <<";">>), L("endrecord", << >>, "", <<";">>)>>,
                {<<1, "V", <<"V">>, <<"v", "d", "is">>>>, <<5, "X", <<"V", "X">>, <<"x">>>>},
                {Member(1, "component", <<"V", "K">>, <<"v", "d", "is">>),
                 Member(1, "component", <<"V", "X">>, <<"x">>)})
Plain == Item(<<L("type", <<<<"T", 4>>>>, "t", <<"(", ")", ";">>)>>, {<<1, "T", <<"T">>, <<"t">>>>})
Enum(e) == With(<<WithLiterals(L("type", <<<<e, 4>>>>, "enum", <<"is", "(">>), <<<<"A", 5>>>>),
                  WithLiterals(L("other", << >>, "more", <<")", ";">>), <<<<"X", 5>>>>)>>,
                {<<1, e, <<e>>, <<"enum", "more">>>>, <<1, "A", <<e, "A">>, <<"enum", "more">>>>,
                 <<2, "X", <<e, "X">>, <<"enum", "more">>>>},
                {Member(1, "literal", <<e, "A">>, <<"enum", "more">>),
                 Member(1, "literal", <<e, "X">>, <<"enum", "more">>)})
Instance == Item(<<L("package", <<<<"I", 4>>>>, "new", <<"is", "new", "(", ")", ";">>)>>,
                 {<<1, "I", <<"I">>, <<"new">>>>})
Remark == Item(<<Comment>>, {})
Long == Refused([i \in 1 .. 6 |-> IF i = 1 THEN L("sub", <<<<"F", 4>>>>, "f", <<"(">>)
                                  ELSE IF i < 6 THEN L("object", <<<<"X", 7>>>>, "x", <<";">>)
                                  ELSE L("other", << >>, "", <<")", ";">>)])
TwoLines == Refused(<<L("type", <<<<"M", 4>>>>, "m", << >>),
                      WithWords(L("other", << >>, "a", <<"(", ";">>), <<"A">>),
                      WithWords(L("object", <<<<"B", 7>>>>, "b", <<")", "is", "record">>), <<"B">>),
                      L("object", <<<<"X", 5>>>>, "x", <<";">>),
                      L("endrecord", << >>, "", <<";">>)>>)

(* What is declared i lines down in package p; a formal keeps its own scope.  *)
Within(p, scope) == IF scope[1] = "generic" THEN scope ELSE <<p>> \o scope
Below(i, p, item) == {<<d[1] + i, d[2], Within(p, d[3]), d[4]>> : d \in item.declared}
MembersBelow(i, p, item) ==
    {[m EXCEPT !.line = @ + i, !.under = <<p>> \o @, !.scope = Within(p, @)] : m \in item.members}
In(p, a, b, c) ==
    LET second == 1 + Len(a.lines)
        third == second + Len(b.lines)
    IN  [lines |-> <<L("package", <<<<p, 3>>>>, "is", <<"is">>)>> \o a.lines \o b.lines
                   \o c.lines \o <<L("end", << >>, "", <<";">>)>>,
         declared |-> {<<1, p, <<p>>, <<"package">>>>} \cup Below(1, p, a)
                      \cup Below(second, p, b) \cup Below(third, p, c),
         members |-> MembersBelow(1, p, a) \cup MembersBelow(second, p, b)
                     \cup MembersBelow(third, p, c),
         refused |-> a.refused \/ b.refused \/ c.refused]

(* A generic clause with a formal type before a package: of a nested package, *)
(* the formal is found as a declaration of the outer one as well.             *)
Clause == <<L("generic", << >>, "", << >>), L("type", <<<<"E", 4>>>>, "e", <<";">>)>>
FormalOf(p) == [Member(1 + Len(Clause), "formal", <<"generic", "E">>, <<"e">>)
                EXCEPT !.under = <<p, "E">>]
Formal(p, s) ==
    [lines |-> Clause \o s.lines,
     declared |-> {<<2, "E", <<"generic", "E">>, <<"e">>>>}
                  \cup {<<d[1] + 2, d[2], d[3], d[4]>> : d \in s.declared},
     members |-> {FormalOf(p)} \cup {[m EXCEPT !.line = @ + 2] : m \in s.members},
     refused |-> s.refused]
NestedFormal(p, s) == LET item == Formal(p, s)
                      IN  [item EXCEPT !.declared = @ \cup {<<2, "E", <<"E">>, <<"e">>>>}]

Simple == {Short("p"), Short("q"), Split("p"), Split("q"), Record("R"), Record("RS"),
           Variant, Plain, Enum("G"), Enum("H"), Instance, Remark, Long, TwoLines}
Nested == {In("N", a, b, Remark) : a \in Simple, b \in {Short("p"), Record("R")}}
          \cup {NestedFormal("N", In("N", Short("p"), b, Remark)) : b \in {Plain, Record("R")}}
Items == Simple \cup Nested

Third == {Short("p"), Split("p"), Record("R"), Variant, Enum("H"), Remark, Long}
Library == {In("P", a, b, c) : a \in Items, b \in Items, c \in Third}
Texts == Library \cup {Formal("P", In("P", a, b, Remark)) : a \in Simple, b \in Simple}
Spellings == {<<"R", "RS">>}

=============================================================================
