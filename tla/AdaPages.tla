------------------------------- MODULE AdaPages -------------------------------
(* Inputs for DocCoverage: specifications of up to two declarations with      *)
(* comment blocks before, between and after them, each with the page a        *)
(* correct GNATdoc renders and every page that differs from it in one thing.  *)
EXTENDS Integers, Sequences, SequencesExt, Functions

Plain(kind) == [kind |-> kind, name |-> "", sort |-> "", members |-> << >>, discriminants |-> << >>]
D(sort, name, members, discriminants) ==
    [kind |-> "decl", name |-> name, sort |-> sort, members |-> members, discriminants |-> discriminants]
C == Plain("comment")
B == Plain("blank")

Declarations == {D("function", "F", <<"A", "B">>, << >>), D("enum", "E", <<"X", "Y">>, << >>),
                 D("record", "R", <<"D", "X">>, <<"D">>), D("object", "K", << >>, << >>)}
Incomplete == D("object", "R", << >>, << >>)

Before == {<< >>, <<C, B>>, <<C, Plain("code")>>}
Under == {<<B>>, <<B, C, B>>}
Commented1 == {<<C, d>> : d \in Declarations}
Body == {<<d>> : d \in Declarations} \cup Commented1
        \cup {<<C, C, B, d>> : d \in Declarations}
        \cup {<<C, d, B, C, e>> : d \in Declarations, e \in Declarations}
        \cup {<<C, d, C, B>> : d \in Declarations}
        \cup {<<Incomplete, C, d>> : d \in Declarations \cup {Incomplete}}
After == {<< >>, <<C, Plain("private"), C, D("object", "Hidden", << >>, << >>)>>,
          <<B, Plain("private")>>}
AllSpecifications == {a \o <<Plain("package")>> \o b \o c \o d : a \in Before, b \in Under, c \in Body, d \in After}

(* The page a correct GNATdoc renders: the block right before a declaration   *)
(* in its section, the leading or opening block in the description.           *)
Visible(lines) == LET P == {i \in DOMAIN lines : lines[i].kind = "private"}
                  IN  IF P = {} THEN DOMAIN lines ELSE {i \in DOMAIN lines : \A p \in P : i < p}
Above(lines, i) == {k \in 1 .. i - 1 : \A m \in k .. i - 1 : lines[m].kind = "comment"}
Head1(lines) == CHOOSE i \in DOMAIN lines : lines[i].kind = "package"
About(lines) ==
    {k \in DOMAIN lines : lines[k].kind = "comment" /\
        LET h == Head1(lines)
        IN  \/ k < h /\ \A m \in k .. h - 1 : lines[m].kind \in {"comment", "blank"}
            \/ /\ k > h
               /\ \E e \in k .. Len(lines) : /\ lines[e].kind = "blank"
                                             /\ \A m \in k .. e - 1 : lines[m].kind = "comment"
               /\ \E b \in h + 1 .. k : /\ \A m \in b .. k : lines[m].kind = "comment"
                                        /\ \A m \in h + 1 .. b - 1 : lines[m].kind = "blank"}
Heading(d) == CASE d.sort = "function" -> "Parameters" [] d.sort = "enum" -> "Enumeration Literal"
                [] OTHER -> "Record fields"
Told(names) == [n \in DOMAIN names |-> <<names[n], TRUE>>]
Groups(d) ==
    LET own == IF d.members = << >> THEN << >> ELSE Heading(d) :> Told(d.members)
    IN  own @@ (IF d.sort = "function" THEN "Return Value" :> <<<<"return", TRUE>>>> ELSE << >>)
Section(lines, i) ==
    [documented |-> Above(lines, i) # {}, text |-> Above(lines, i), groups |-> Groups(lines[i])]
Decls(lines) == {i \in Visible(lines) : lines[i].kind = "decl"}
Correct(lines) ==
    [present |-> TRUE, description |-> About(lines),
     sections |-> [n \in {lines[i].name : i \in Decls(lines)} |->
                      <<Section(lines, CHOOSE i \in Decls(lines) :
                          lines[i].name = n /\ \A j \in Decls(lines) : lines[j].name = n => j <= i)>>]]

(* One thing wrong with a page.                                               *)
Change(page, n, s) == [page EXCEPT !.sections[n] = <<s>>]
Wrong(page) ==
    {[page EXCEPT !.present = FALSE], [page EXCEPT !.description = {}]}
    \cup UNION {{[page EXCEPT !.sections[n] = << >>],
                 [page EXCEPT !.sections[n] = page.sections[n] \o page.sections[n]],
                 Change(page, n, [page.sections[n][1] EXCEPT !.text = {}]),
                 Change(page, n, [page.sections[n][1] EXCEPT !.documented = FALSE]),
                 Change(page, n, [page.sections[n][1] EXCEPT !.groups =
                                      @ @@ ("Raised exceptions" :> <<<<"Error", FALSE>>>>)])} :
                n \in DOMAIN page.sections}
    \cup UNION {UNION {LET s == page.sections[n][1]
                           g == s.groups[h]
                           With(e) == Change(page, n, [s EXCEPT !.groups[h] = e])
                       IN  {With([g EXCEPT ![1] = <<@[1], FALSE>>]), With(Reverse(g)), With(Tail(g)),
                            Change(page, n, [s EXCEPT !.groups = Restrict(@, DOMAIN @ \ {h})])} :
                       h \in DOMAIN page.sections[n][1].groups} :
                n \in DOMAIN page.sections}

PagesFor(lines) == {Correct(lines)} \cup Wrong(Correct(lines))
AllBaselines == {{}, {<<"F", "A">>}, {<<"E", "">>}, {<<"package", "">>}}

=============================================================================
