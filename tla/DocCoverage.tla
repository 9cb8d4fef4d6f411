----------------------------- MODULE DocCoverage -----------------------------
(* scripts/check_doc_coverage.py: what the visible part of a specification    *)
(* declares and comments is compared with the page GNATdoc rendered for it,   *)
(* and what is undocumented with a baseline.                                  *)
(*                                                                            *)
(* A line is a declaration with its members, or a comment, the package        *)
(* header, private, other code or blank. A comment's text is the number of    *)
(* its line, so a section's text is the set of the comment lines that render  *)
(* in it. One specification is checked: its items are named after its package *)
(* and the specifications are otherwise independent.                          *)
EXTENDS Integers, Sequences, SequencesExt, FiniteSets, Functions

CONSTANTS Sources,     \* the specifications, as sequences of lines
          PagesOf(_),  \* the pages GNATdoc may render for one
          Baselines    \* the baselines a check is called with

VARIABLES case,     \* the specification, its page, the baseline and the options
          phase,    \* where the check is
          at,       \* the line looked at next
          block,    \* the comment lines not yet attached
          byStart,  \* the section found for the declaration at a line
          items,    \* the items counted
          missing,  \* those of them that are not documented
          errors    \* what the check found wrong
vars == <<case, phase, at, block, byStart, items, missing, errors>>

Kinds == {"package", "private", "decl", "comment", "code", "blank"}
Lines == case.lines
Page == case.page
Of(kind) == {i \in DOMAIN Lines : Lines[i].kind = kind}
First(S, default) == IF S = {} THEN default ELSE CHOOSE i \in S : \A j \in S : i <= j
Header == First(Of("package"), 0)

Private == First(Of("private"), Len(Lines) + 1)
Top == {i \in Of("decl") : i < Private}
Blank(i, j) == \A k \in i .. j : Lines[k].kind = "blank"

Init ==
    /\ \E l \in Sources : \E p \in PagesOf(l), b \in Baselines, strict \in BOOLEAN, write \in BOOLEAN :
           /\ b # {} => strict /\ ~ write
           /\ case = [lines |-> l, page |-> p, baseline |-> b, strict |-> strict, write |-> write]
    /\ phase = "package" /\ at = 1
    /\ block = << >> /\ byStart = << >>
    /\ items = {} /\ missing = {} /\ errors = {}

-----------------------------------------------------------------------------
(* expected_items: under which headings GNATdoc should list which members. A  *)
(* discriminant is listed first and once, also when it is a component.        *)
Without(names, gone) == SelectSeq(names, LAMBDA n : n \notin ToSet(gone))
Listing(heading, names) == IF names = << >> THEN {} ELSE {<<heading, names>>}
\* MUTANT of Fields: the discriminants of the record are not fields.
FieldsOfRecord(d) == Without(d.members, d.discriminants)

Fields(d) == d.discriminants \o Without(d.members, d.discriminants)
expected_items(d) ==
    CASE d.sort = "function"  -> Listing("Parameters", d.members)
                                 \cup {<<"Return Value", <<"return">>>>}
      [] d.sort = "procedure" -> Listing("Parameters", d.members)
      [] d.sort = "enum"      -> Listing("Enumeration Literal", d.members)
      [] d.sort = "record"    -> Listing("Record fields", Fields(d))
      [] OTHER                -> {}

(* What a section says: its description, if documented, the lists of members  *)
(* under their headings, each a sequence of <<name, documented>>, and the     *)
(* comment lines in its text.                                                 *)
Names(entries) == [n \in DOMAIN entries |-> entries[n][1]]
Agrees(section, listing) ==
    /\ listing[1] \in DOMAIN section.groups
    /\ Names(section.groups[listing[1]]) = listing[2]
Item(d, name) == <<d.name, name>>

\* MUTANT of Complaints: a section with fewer members than the source is fine.
ComplaintsOfAbsent(d, section) ==
    {<<"differs", d.name, l[1]>> : l \in {k \in expected_items(d) :
                                              k[1] \notin DOMAIN section.groups}}

Complaints(d, section) ==
    {<<"unexpected", d.name, h>> :
         h \in DOMAIN section.groups \ ({l[1] : l \in expected_items(d)} \cup {"Raised exceptions"})}
    \cup {<<"differs", d.name, l[1]>> : l \in {k \in expected_items(d) : ~ Agrees(section, k)}}
    \cup {<<"exception", d.name, e[1]>> :
             e \in {r \in IF "Raised exceptions" \in DOMAIN section.groups
                          THEN ToSet(section.groups["Raised exceptions"]) ELSE {} : ~ r[2]}}

(* record, for each item of the section: its description and its members.     *)
Entries(d, section) ==
    {<<Item(d, ""), section.documented>>} \cup
    UNION {{<<Item(d, e[1]), e[2]>> : e \in ToSet(section.groups[l[1]])} :
               l \in {k \in expected_items(d) : Agrees(section, k)}}

Record(entries) ==
    /\ items' = items \cup {e[1] : e \in entries}
    /\ missing' = missing \cup {e[1] : e \in {f \in entries : ~ f[2]}}

\* MUTANT of Duplicates: an item counted again is not noticed.
NoDuplicates(entries) == {}

Duplicates(entries) == {<<"duplicate", i[1], i[2]>> : i \in {e[1] : e \in entries} \cap items}

-----------------------------------------------------------------------------
NoPage ==
    /\ phase = "package" /\ ~ Page.present
    /\ errors' = errors \cup {<<"page missing">>}
    /\ phase' = "verdict"
    /\ UNCHANGED <<case, at, block, byStart, items, missing>>

Description ==
    /\ phase = "package" /\ Page.present
    /\ Record({<<Item([name |-> "package"], ""), Page.description # {}>>})
    /\ phase' = "declarations"
    /\ UNCHANGED <<case, at, block, byStart, errors>>

Skip ==
    /\ phase = "declarations" /\ at \notin Top /\ at <= Len(Lines)
    /\ at' = at + 1
    /\ UNCHANGED <<case, phase, block, byStart, items, missing, errors>>

(* The declaration has exactly one section.                                   *)
Sections(d) == IF d.name \in DOMAIN Page.sections THEN Page.sections[d.name] ELSE << >>
Single(d) == Len(Sections(d)) = 1

Declaration ==
    /\ phase = "declarations" /\ at \in Top
    /\ LET d == Lines[at]
           section == Sections(d)[1]
       IN  IF ~ Single(d)
           THEN /\ errors' = errors \cup {<<"sections", d.name>>}
                /\ UNCHANGED <<byStart, items, missing>>
           ELSE /\ byStart' = [i \in DOMAIN byStart \cup {at} |->
                                   IF i = at THEN section ELSE byStart[i]]
                /\ Record(Entries(d, section))
                /\ errors' = errors \cup Complaints(d, section)
                                    \cup Duplicates(Entries(d, section))
    /\ at' = at + 1
    /\ UNCHANGED <<case, phase, block>>

Declared ==
    /\ phase = "declarations" /\ at > Len(Lines)
    /\ phase' = "comments" /\ at' = 1
    /\ UNCHANGED <<case, block, byStart, items, missing, errors>>

-----------------------------------------------------------------------------
(* _attachment_errors: a comment block ends with the first other line.        *)
Comment ==
    /\ phase = "comments" /\ at < Private /\ Lines[at].kind = "comment"
    /\ block' = Append(block, at) /\ at' = at + 1
    /\ UNCHANGED <<case, phase, byStart, items, missing, errors>>

Leading(i, j) == j < Header /\ Blank(j + 1, Header - 1)
Opening(i, j) == i > Header /\ Blank(Header + 1, i - 1) /\ Blank(j + 1, j + 1)

\* MUTANT of Attach: a block that precedes no declaration is passed over.
AttachIfPossible(i, j) ==
    LET text == IF Leading(i, j) \/ Opening(i, j) THEN Page.description
                ELSE IF j + 1 \in DOMAIN byStart THEN byStart[j + 1].text ELSE i .. j
    IN  IF i .. j \subseteq text THEN {} ELSE {<<"does not render", i>>}

Attach(i, j) ==
    LET text == IF Leading(i, j) \/ Opening(i, j) THEN Page.description
                ELSE IF j + 1 \in DOMAIN byStart THEN byStart[j + 1].text ELSE i .. j
    IN  IF ~ Leading(i, j) /\ ~ Opening(i, j) /\ j + 1 \notin Top
        THEN {<<"detached", i>>}
        ELSE IF i .. j \subseteq text THEN {} ELSE {<<"does not render", i>>}

Other ==
    /\ phase = "comments" /\ at < Private /\ Lines[at].kind # "comment"
    /\ errors' = IF block = << >> THEN errors
                 ELSE errors \cup Attach(block[1], block[Len(block)])
    /\ block' = << >> /\ at' = at + 1
    /\ UNCHANGED <<case, phase, byStart, items, missing>>

Commented ==
    /\ phase = "comments" /\ at >= Private
    /\ phase' = "verdict"
    /\ UNCHANGED <<case, at, block, byStart, items, missing, errors>>

(* main: errors are never written to a baseline nor excused by one.           *)
\* MUTANT of Verdict: --fail-on-removed is ignored.
VerdictOfAdded == IF errors = {} /\ missing \subseteq case.baseline THEN "accepted" ELSE "refused"

Verdict ==
    CASE errors # {}                                     -> "refused"
      [] errors = {} /\ case.write                       -> "written"
      [] errors = {} /\ ~ case.write ->
             IF missing \subseteq case.baseline
                /\ (case.strict => case.baseline \subseteq missing)
             THEN "accepted" ELSE "refused"

Main ==
    /\ phase = "verdict"
    /\ phase' = Verdict
    /\ case' = IF Verdict = "written" THEN [case EXCEPT !.baseline = missing] ELSE case
    /\ UNCHANGED <<at, block, byStart, items, missing, errors>>

Next ==
    \/ NoPage \/ Description \/ Skip \/ Declaration \/ Declared
    \/ Comment \/ Other \/ Commented \/ Main

Spec == Init /\ [][Next]_vars

-----------------------------------------------------------------------------
\* Types: the block and the declarations that comments are attached to are
\* lines of the source of their kind.
TypeOK ==
    /\ \A i \in DOMAIN Lines : Lines[i].kind \in Kinds
    /\ phase \in {"package", "declarations", "comments", "verdict",
                  "accepted", "refused", "written"}
    /\ at \in 1 .. Len(Lines) + 1
    /\ ToSet(block) \subseteq Of("comment")
    /\ DOMAIN byStart \subseteq Top
    /\ missing \subseteq items

Passed == phase \in {"accepted", "written"}

(* What a declaration declares, said without the check: the members of the    *)
(* source in their order, under the heading they belong to.                   *)
Heading == [function |-> "Parameters", procedure |-> "Parameters",
            enum |-> "Enumeration Literal", record |-> "Record fields"]
Members(d) == IF d.sort = "record" THEN d.discriminants \o Without(d.members, d.discriminants)
              ELSE d.members
Headed(d) ==
    {<<Heading[k], Members(d)>> : k \in {h \in DOMAIN Heading : h = d.sort /\ Members(d) # << >>}}
    \cup {l \in {<<"Return Value", <<"return">>>>} : d.sort = "function"}

(* The headings of a section that its exceptions are not under.               *)
Lists(s) == DOMAIN s.groups \ {"Raised exceptions"}

(* What is legal Ada: the names a declaration lists are distinct, and nothing *)
(* is called package, a reserved word. And what a page consists of: sections  *)
(* of declarations, with lists of names that have a text or not.              *)
Distinct(d) ==
    /\ \A l \in Headed(d) : /\ "" \notin ToSet(l[2])
                            /\ \A m, n \in DOMAIN l[2] : l[2][m] = l[2][n] => m = n
    /\ \A l, k \in Headed(d) : l # k => ToSet(l[2]) \cap ToSet(k[2]) = {}
    /\ d.name # "package"
LineType == [kind : Kinds, name : STRING, sort : STRING,
             members : Seq(STRING), discriminants : Seq(STRING)]
IsSection(s) ==
    /\ s.documented \in BOOLEAN
    /\ \A h \in DOMAIN s.groups : s.groups[h] \in Seq(STRING \X BOOLEAN)
IsPage(p) ==
    /\ p.present \in BOOLEAN
    /\ "package" \notin DOMAIN p.sections
    /\ \A n \in DOMAIN p.sections : /\ p.sections[n] \in Seq(ToSet(p.sections[n]))
                                    /\ \A s \in ToSet(p.sections[n]) : IsSection(s)
CoverageAssumption ==
    \A l \in Sources : /\ l \in Seq(LineType)
                       /\ \A i \in DOMAIN l : Distinct(l[i])
                       /\ \A p \in PagesOf(l) : IsPage(p)

Wanted ==
    {<<"package", "">>} \cup
    UNION {{<<Lines[i].name, "">>} \cup
           UNION {{<<Lines[i].name, n>> : n \in ToSet(l[2])} : l \in Headed(Lines[i])} :
               i \in Top}
Written ==
    {i \in Wanted :
        \/ i = <<"package", "">> /\ Page.description # {}
        \/ \E s \in ToSet(Sections([name |-> i[1]])) :
               \/ i[2] = "" /\ s.documented
               \/ \E h \in Lists(s) :
                      <<i[2], TRUE>> \in ToSet(s.groups[h])}

(* A check that passes leaves exactly the gaps its baseline names; with an    *)
(* empty baseline everything the source declares is documented.               *)
GapsAreTheBaseline ==
    (Passed /\ (case.strict \/ case.write)) => Wanted \ Written = case.baseline

(* Everything the visible part declares is counted when the check passes,     *)
(* each item once, and nothing else.                                          *)
CountedOnce ==
    Passed => /\ items = Wanted
              /\ \A i \in Top, j \in Top : Lines[i].name = Lines[j].name => i = j

(* The members a page lists are those of the source, in the source's order.   *)
MembersInOrder ==
    Passed => \A i \in Top : \A s \in ToSet(Sections(Lines[i])) :
        {<<h, Names(s.groups[h])>> : h \in Lists(s)}
            = Headed(Lines[i])

(* The blocks of the visible part, and where one belongs: the declaration     *)
(* right below it, or the description of the package.                         *)
Blocks ==
    {b \in (1 .. Private - 1) \X (1 .. Private - 1) :
        /\ b[1] <= b[2] /\ b[1] .. b[2] \subseteq Of("comment")
        /\ b[1] - 1 \notin Of("comment") /\ b[2] + 1 \notin Of("comment")}
Belongs(b) ==
    \/ Leading(b[1], b[2]) \/ Opening(b[1], b[2])
    \/ b[2] + 1 \in Top
Rendered(b) ==
    IF Leading(b[1], b[2]) \/ Opening(b[1], b[2]) THEN b[1] .. b[2] \subseteq Page.description
    ELSE \E s \in ToSet(Sections(Lines[b[2] + 1])) : b[1] .. b[2] \subseteq s.text

(* A check that passes, whatever its baseline, has found every comment block  *)
(* that a visible line follows attached and rendered where it belongs.        *)
EveryBlockRenders ==
    Passed => \A b \in Blocks : b[2] + 1 < Private => Belongs(b) /\ Rendered(b)

(* The page a correct GNATdoc renders: each declaration in one section, with  *)
(* its members, no exception without a text, and each block where it belongs. *)
Faithful ==
    /\ Page.present
    /\ \A b \in Blocks : Belongs(b) => Rendered(b)
    /\ \A i \in Top : /\ Single(Lines[i])
                      /\ LET s == Sections(Lines[i])[1]
                         IN  /\ {<<h, Names(s.groups[h])>> :
                                     h \in Lists(s)} = Headed(Lines[i])
                             /\ "Raised exceptions" \in DOMAIN s.groups =>
                                    \A e \in ToSet(s.groups["Raised exceptions"]) : e[2]

(* A correct page of a source in which every block belongs and each name is   *)
(* declared once is refused only when the gaps are not those of the baseline. *)
NoFalseAlarm ==
    (phase = "refused" /\ Faithful)
        => \/ \E b \in Blocks : ~ Belongs(b)
           \/ \E i \in Top, j \in Top : i # j /\ Lines[i].name = Lines[j].name
           \/ Wanted \ Written # case.baseline

(* A check that passes proves the documentation complete but for its          *)
(* baseline, and it passes when the documentation is.                         *)
PassedIsDocumented ==
    /\ TypeOK /\ GapsAreTheBaseline /\ CountedOnce /\ MembersInOrder
    /\ EveryBlockRenders /\ NoFalseAlarm

=============================================================================
