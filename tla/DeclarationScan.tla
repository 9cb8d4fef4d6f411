---------------------------- MODULE DeclarationScan ----------------------------
(* declaration_index and locate_declaration of                                *)
(* scripts/compare_gnatdoc_warnings.py: one pass over the lines of an Ada     *)
(* specification finds its declarations and the scope of each, without        *)
(* parsing Ada; then the place a warning names is turned into a declaration.  *)
(* A line is what code_tokens leaves of it: how it begins (head), the names   *)
(* it declares with their columns, what it says (text), its parentheses,      *)
(* semicolons and the words is, new and record, but that of an end record, in *)
(* order (marks), and the words of a parenthesis before is (words).           *)
(*                                                                            *)
(* The specification of what should be found comes with the source: the       *)
(* declarations of the Ada text it was written out from, and the components,  *)
(* discriminants, literals and generic formals that GNATdoc reports at the    *)
(* type or the package they belong to (members).                              *)
EXTENDS Integers, Sequences, SequencesExt, FiniteSets

CONSTANTS Sources,    \* [lines, declared, members, refused] of each source
          SpelledIn,  \* the pairs of names of which one is part of the other
          MaxLines,   \* MAX_DECLARATION_LINES, 200 in the code
          MaxGap      \* how far a comment block is scanned, 80 in the code

ScanAssumption ==
    /\ MaxLines \in Nat \ {0} /\ MaxGap \in Nat
    /\ \A s \in Sources : s.lines # << >>

Heads == {"comment", "other", "generic", "package", "type", "sub", "object",
          "end", "endrecord", "endcase"}

VARIABLES source,    \* the source, with what it declares
          index,     \* the line looked at next
          stack,     \* the scopes that are open: <<kind, name>>
          pending,   \* the lines of generic clauses not yet used
          found,     \* the declarations
          outcome    \* "scanning", "done" or "failed"
vars == <<source, index, stack, pending, found, outcome>>

Init ==
    /\ source \in Sources
    /\ index = 1
    /\ stack = << >> /\ pending = << >> /\ found = {}
    /\ outcome = "scanning"

-----------------------------------------------------------------------------
Lines == source.lines
Line == Lines[index]
Scanning(heads) ==
    /\ outcome = "scanning" /\ index <= Len(Lines)
    /\ Line.head \in heads

(* The parentheses open after the first k marks of line j, from line i on.    *)
Opened(marks) == Len(SelectSeq(marks, LAMBDA m : m = "("))
                 - Len(SelectSeq(marks, LAMBDA m : m = ")"))
DepthAt(i, j, k) ==
    Opened(FlattenSeq([n \in 1 .. j - i |-> Lines[i + n - 1].marks])
           \o SubSeq(Lines[j].marks, 1, k))

\* MUTANT of EndsAt: the first semicolon ends a declaration, whatever is open.
EndsAtSemicolon(i, j) == \E k \in DOMAIN Lines[j].marks : Lines[j].marks[k] = ";"

(* A declaration ends with a semicolon outside of its parentheses.            *)
EndsAt(i, j) ==
    \E k \in DOMAIN Lines[j].marks :
        /\ Lines[j].marks[k] = ";" /\ DepthAt(i, j, k) = 0
        /\ \A m \in 1 .. k : DepthAt(i, j, m) >= 0

(* A parenthesis is closed that was not opened since line i.                  *)
Unbalanced(i, j) == \E k \in DOMAIN Lines[j].marks : DepthAt(i, j, k) < 0

(* A package's header ends with its is, or with the semicolon of an instance. *)
HeaderEndsAt(i, j) ==
    LET marks == ToSet(Lines[j].marks)
    IN  /\ DepthAt(i, j, Len(Lines[j].marks)) = 0 /\ ~ Unbalanced(i, j)
        /\ ";" \in marks \/ ("is" \in marks /\ "new" \notin marks)

(* _declaration_span: the last line of the declaration that begins at i, or 0 *)
(* when it does not end in time, or closes a parenthesis it has not opened.   *)
SpanEnd(i, kind) ==
    LET Ends(j) == IF kind = "package" THEN HeaderEndsAt(i, j) ELSE EndsAt(i, j)
        stops == {j \in i .. i + MaxLines - 1 :
                     j <= Len(Lines) /\ (Ends(j) \/ Unbalanced(i, j))}
        first == CHOOSE j \in stops : \A k \in stops : j <= k
    IN  IF stops = {} \/ ~ Ends(first) THEN 0 ELSE first

End == SpanEnd(index, "object")
Said(i, j) == [n \in 1 .. j - i + 1 |-> Lines[i + n - 1].text]

Kinds == [i \in DOMAIN stack |-> stack[i][1]]
InPackage == "package" \in ToSet(Kinds)
InRecord == "record" \in ToSet(Kinds)
Scope == [i \in DOMAIN stack |-> stack[i][2]]

(* A generic formal may be recorded twice, by the scan and as a formal; its   *)
(* entries are kept apart by way.                                             *)
Declaration(name, i, j, scope, signature) ==
    [name |-> name[1], column |-> name[2], start |-> i, end |-> j,
     scope |-> Append(scope, name[1]), signature |-> signature, way |-> "scan"]
AsFormal(d) == [d EXCEPT !.way = "formal"]

Fail == outcome' = "failed" /\ UNCHANGED <<source, index, stack, pending, found>>

(* A line that declares nothing.                                              *)
PassOver ==
    /\ Scanning({"comment", "other", "endcase"})
    /\ index' = index + 1
    /\ UNCHANGED <<source, stack, pending, found, outcome>>

Generic ==
    /\ Scanning({"generic"})
    /\ pending' = Append(pending, index)
    /\ index' = index + 1
    /\ UNCHANGED <<source, stack, found, outcome>>

(* _close_scopes: an end closes the package, an end record the record, on top *)
(* of the stack; end case closes nothing.                                     *)
Closes(kind) == stack # << >> /\ stack[Len(stack)][1] = kind
Close ==
    /\ Scanning({"end", "endrecord"})
    /\ IF Closes(IF Line.head = "end" THEN "package" ELSE "record")
       THEN /\ stack' = Front(stack)
            /\ index' = index + 1
            /\ UNCHANGED <<source, pending, found, outcome>>
       ELSE Fail

(* Objects and components, several names in one list.                         *)
Component ==
    /\ Scanning({"object"})
    /\ IF ~ InPackage
       THEN index' = index + 1 /\ UNCHANGED <<source, stack, pending, found, outcome>>
       ELSE IF End = 0 THEN Fail
       ELSE /\ found' = found \cup
                  {Declaration(Line.names[n], index, End, Scope, Said(index, End)) :
                       n \in DOMAIN Line.names}
            /\ index' = End + 1
            /\ UNCHANGED <<source, stack, pending, outcome>>

(* A package: the generic clause before it, if any, gives its formals, one    *)
(* after the end of the other.                                                *)
FormalLines(from, to) ==
    LET Take(taken, i) ==
            IF i <= taken.end \/ Lines[i].head \notin {"object", "type", "sub", "package"}
            THEN taken
            ELSE [lines |-> taken.lines \cup {i}, end |-> SpanEnd(i, "object")]
    IN  FoldLeft(Take, [lines |-> {}, end |-> 0],
                 [k \in 1 .. to - from + 1 |-> from + k - 1]).lines
Formals(from, to) ==
    UNION {{AsFormal(Declaration(Lines[i].names[n], i, SpanEnd(i, "object"), <<"generic">>,
                                 Said(i, SpanEnd(i, "object")))) :
                n \in DOMAIN Lines[i].names} : i \in FormalLines(from, to)}

Package ==
    /\ Scanning({"package"})
    /\ LET end == SpanEnd(index, "package")
           formals == IF pending = << >> THEN {} ELSE FormalLines(pending[1] + 1, index - 1)
           instance == "new" \in ToSet(FlattenSeq([n \in 1 .. end - index + 1 |->
                                                     Lines[index + n - 1].marks]))
       IN  IF end = 0 \/ (\E i \in formals : SpanEnd(i, "object") = 0) THEN Fail
           ELSE /\ found' = found
                      \cup {Declaration(Line.names[1], index, end, Scope,
                                IF instance THEN Said(index, end) ELSE <<"package">>)}
                      \cup (IF pending = << >> THEN {}
                            ELSE Formals(pending[1] + 1, index - 1))
                /\ pending' = IF pending = << >> THEN << >> ELSE Tail(pending)
                /\ stack' = IF instance THEN stack
                            ELSE Append(stack, <<"package", Line.names[1][1]>>)
                /\ index' = end + 1
                /\ UNCHANGED <<source, outcome>>

(* A formal type before the library package is a declaration of its own.      *)
GenericType ==
    /\ Scanning({"type"}) /\ pending # << >> /\ ~ InPackage
    /\ IF End = 0 THEN Fail
       ELSE /\ found' = found \cup
                  {Declaration(Line.names[1], index, End, <<"generic">>, Said(index, End))}
            /\ index' = End + 1
            /\ UNCHANGED <<source, stack, pending, outcome>>

(* A record's header ends with its keyword, its declaration with the end      *)
(* record that matches.                                                       *)
HasRecord(k) == "record" \in ToSet(Lines[k].marks)
RecordKeyword(i, j) ==
    LET at == {k \in i .. j : HasRecord(k)}
    IN  IF at = {} THEN 0 ELSE CHOOSE k \in at : \A m \in at : k <= m
Nesting(i, j) ==
    Cardinality({k \in i .. j : HasRecord(k)})
    - Cardinality({k \in i .. j : Lines[k].head = "endrecord"})
\* MUTANT of RecordEnd: the end record is looked for from the top.
RecordEndFromTop(k) ==
    LET ends == {j \in 1 .. Len(Lines) : Lines[j].head = "endrecord"}
    IN  IF ends = {} THEN 0 ELSE CHOOSE j \in ends : \A m \in ends : j <= m

RecordEnd(k) ==
    LET ends == {j \in k + 1 .. Len(Lines) : Lines[j].head = "endrecord" /\ Nesting(k, j) = 0}
    IN  IF ends = {} THEN 0 ELSE CHOOSE j \in ends : \A m \in ends : j <= m

OpenRecord ==
    /\ Scanning({"type"}) /\ ~ (pending # << >> /\ ~ InPackage)
    /\ End # 0 /\ RecordKeyword(index, End) # 0
    /\ LET header == RecordKeyword(index, End)
       IN  IF ~ InPackage \/ RecordEnd(header) = 0 THEN Fail
           ELSE /\ found' = found \cup
                      {Declaration(Line.names[1], index, RecordEnd(header), Scope,
                                   Said(index, header))}
                /\ stack' = Append(stack, <<"record", Line.names[1][1]>>)
                /\ index' = index + 1
                /\ UNCHANGED <<source, pending, outcome>>

(* _enumeration_literals: a literal is a declaration in the scope of its type,*)
(* at the first line of the type that has it.                                 *)
LiteralAt(scope, i, j) ==
    UNION {{[Declaration(l, k, k, scope, Said(i, j)) EXCEPT !.way = "literal"] :
                l \in {m \in ToSet(Lines[k].literals) :
                          \A h \in i .. k - 1 : m[1] \notin {n[1] : n \in ToSet(Lines[h].literals)}}} :
           k \in i .. j}

Literals(i, j) == LiteralAt(Append(Scope, Line.names[1][1]), i, j)

(* A subprogram, or a type that is no record.                                 *)
Declare ==
    /\ Scanning({"type", "sub"}) /\ ~ (pending # << >> /\ ~ InPackage /\ Line.head = "type")
    /\ Line.head = "sub" \/ End = 0 \/ RecordKeyword(index, End) = 0
    /\ IF ~ InPackage \/ End = 0 THEN Fail
       ELSE /\ found' = found \cup
                  {Declaration(Line.names[1], index, End, Scope, Said(index, End))}
                  \cup Literals(index, End)
            /\ index' = End + 1
            /\ UNCHANGED <<source, stack, pending, outcome>>

Finish ==
    /\ outcome = "scanning" /\ index > Len(Lines)
    /\ outcome' = IF stack = << >> THEN "done" ELSE "failed"
    /\ UNCHANGED <<source, index, stack, pending, found>>

Next ==
    \/ PassOver \/ Generic \/ Close \/ Component \/ Package \/ GenericType
    \/ OpenRecord \/ Declare \/ Finish

Spec == Init /\ [][Next]_vars

-----------------------------------------------------------------------------
(* _by_location: two declarations that nothing but their place tells apart    *)
(* are ambiguous.                                                             *)
\* MUTANT of Ambiguous: never.
Unambiguous(d) == FALSE

Ambiguous(d) ==
    \E e \in found : e # d /\ e.column = d.column /\ e.name = d.name
                           /\ e.scope = d.scope /\ e.signature = d.signature

(* name_at: what is at the column of a line, if a name begins there. Of the   *)
(* lines below, the first with a name there decides, as long as there is only *)
(* comment in between.                                                        *)
NameAt(i, c) ==
    {n[1] : n \in {m \in ToSet(Lines[i].names) \cup ToSet(Lines[i].literals) : m[2] = c}}

\* MUTANT of Named: code between the line and the name is passed over.
NamedAcross(i, c) ==
    {j \in i .. i + MaxGap : /\ j <= Len(Lines) /\ NameAt(j, c) # {}
                             /\ \A k \in i .. j - 1 : NameAt(k, c) = {}}

Named(i, c) ==
    {j \in i .. i + MaxGap : /\ j <= Len(Lines) /\ NameAt(j, c) # {}
                             /\ \A k \in i .. j - 1 : Lines[k].head = "comment"}

(* The declarations a warning at line i, column c may mean; locating it       *)
(* succeeds when there is one and it is not ambiguous.                        *)
\* MUTANT of Hits: the name and its column are enough.
HitsByName(i, c) ==
    UNION {{d \in found : d.column = c /\ d.name \in NameAt(j, c)} : j \in Named(i, c)}

Hits(i, c) ==
    UNION {{d \in found : /\ d.column = c /\ d.name \in NameAt(j, c)
                          /\ d.start <= j /\ j <= d.end} : j \in Named(i, c)}
Located(i, c) == Cardinality(Hits(i, c)) = 1 /\ \A d \in Hits(i, c) : ~ Ambiguous(d)
Identity(d) == <<d.scope, d.signature>>

(* _subject_declaration: GNATdoc reports a component, a literal or a formal   *)
(* at its type or package (the owner). A component may be a discriminant, one *)
(* of the words before is in the owner's signature; else the one member of    *)
(* that name in the span of the owner, or above its end if it is a formal, is *)
(* taken. A component's scope has the owner's name somewhere in its text.     *)
(* Entries that differ in nothing but their place count as one.               *)
Mentions(scope, name) ==
    \E k \in DOMAIN scope : name = scope[k] \/ <<name, scope[k]>> \in SpelledIn
HeadWords(owner) == UNION {ToSet(Lines[k].words) : k \in owner.start .. owner.end}

\* MUTANT of Members: any declaration of that name above the end of the owner.
MembersAbove(owner, kind, n) == {d \in found : d.name = n /\ d.start <= owner.end}

Members(owner, kind, n) ==
    {d \in found : /\ d.name = n /\ d.start <= owner.end
                   /\ kind = "formal" \/ owner.start <= d.start
                   /\ kind = "component" => Mentions(d.scope, owner.name)}

\* MUTANT of Subjects: discriminants are looked for among the components.
SubjectsDeclared(owner, kind, n) == {Identity(d) : d \in Members(owner, kind, n)}

Subjects(owner, kind, n) ==
    IF kind = "component" /\ n \in HeadWords(owner)
    THEN {<<Append(owner.scope, n), owner.signature>>}
    ELSE {Identity(d) : d \in Members(owner, kind, n)}

-----------------------------------------------------------------------------
\* Types: the scanner's lists and the declarations found lie within the source.
TypeOK ==
    /\ \A i \in DOMAIN Lines : Lines[i].head \in Heads
    /\ index \in 1 .. Len(Lines) + 1
    /\ \A i \in DOMAIN stack : stack[i][1] \in {"package", "record"}
    /\ ToSet(pending) \subseteq 1 .. Len(Lines)
    /\ \A d \in found : d.start \in 1 .. Len(Lines) /\ d.end \in d.start .. Len(Lines)
    /\ outcome \in {"scanning", "done", "failed"}

(* The scan finds what the Ada text declares, each declaration once, at its   *)
(* line, with its whole scope and its whole signature, whatever parameters,   *)
(* components, variants, nested packages and comments surround it. It fails   *)
(* of a declaration that is too long, and of a record whose discriminants go  *)
(* on on a line of their own, which is scanned again as a component; of no    *)
(* other.                                                                     *)
ScanIsExact ==
    /\ outcome = "done" =>
           {<<d.start, d.name, d.scope, d.signature>> : d \in found} = source.declared
    /\ outcome = "done" => ~ source.refused
    /\ outcome = "failed" => source.refused

(* A warning at a declaration, or in the comment above it, is located at that *)
(* very declaration unless it is ambiguous or a generic formal, which is      *)
(* recorded twice; it is never given to another.                              *)
IsFormal(d) == \E e \in found : e.way = "formal" /\ e.start = d.start
LocatesItsOwn ==
    outcome = "done" =>
        \A d \in found, i \in 1 .. Len(Lines) :
            (i <= d.start /\ \A k \in i .. d.start - 1 : Lines[k].head = "comment")
                => /\ Ambiguous(d) \/ IsFormal(d) \/ Hits(i, d.column) = {d}
                   /\ Located(i, d.column) => Hits(i, d.column) = {d}

(* Two warnings at different declarations never have one identity, so one     *)
(* cannot cancel the other in the comparison.                                 *)
IdentitiesDistinct ==
    outcome = "done" =>
        \A d \in found, e \in found :
            Located(d.start, d.column) /\ Located(e.start, e.column) /\ d # e
                => Identity(d) # Identity(e)

(* A warning about a member that is reported at its type or package is given  *)
(* to that member of that very owner, whichever others have one of the same   *)
(* name. Only the formals of a package inside another, which are taken for    *)
(* declarations of the outer one as well, are refused.                        *)
MembersAttach ==
    outcome = "done" =>
        \A m \in source.members : \A owner \in found :
            owner.start = m.line /\ Append(owner.scope, m.name) = m.under =>
                LET subjects == Subjects(owner, m.kind, m.name)
                IN  \/ subjects = {<<m.scope, m.signature>>}
                    \/ /\ m.kind = "formal" /\ Len(owner.scope) > 1
                       /\ Cardinality(subjects) > 1

(* Located warnings stop at code: a place above other code is refused.        *)
NeverAcrossCode ==
    outcome = "done" =>
        \A i \in 1 .. Len(Lines), c \in 1 .. 9 :
            \A d \in Hits(i, c) : \A k \in i .. d.start - 1 : Lines[k].head = "comment"

(* A warning is filed under the declaration it is about, and under no other.  *)
FiledByDeclaration ==
    /\ TypeOK /\ ScanIsExact /\ LocatesItsOwn /\ IdentitiesDistinct
    /\ MembersAttach /\ NeverAcrossCode

=============================================================================
