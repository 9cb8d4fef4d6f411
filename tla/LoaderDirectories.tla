--------------------------- MODULE LoaderDirectories ---------------------------
(* loader_directories of scripts/cross_geometry.py: the directories the       *)
(* target's loader searches, read from the sysroot's ld.so.conf. A file names *)
(* directories and includes other files by a pattern, which may bring it back *)
(* to itself: past MaxDepth includes, a file is passed over. The recursion    *)
(* is the stack of the files being read, each with the lines left of it.      *)
EXTENDS Integers, Sequences, SequencesExt

CONSTANTS Conf,       \* the configuration files; "ld.so.conf" is one
          Root,       \* ld.so.conf
          Dirs,       \* the directories entries name
          MaxDepth,   \* how deep includes are followed, 8 in the code
          Defaults,   \* the directories searched last, a sequence
          Sysroots    \* the sysroots that may be met

(* A sysroot: the lines of each file there is, which of the directories       *)
(* exist, and which entries are relative. A line is [dir |-> d], or           *)
(* [include |-> s] with the files its pattern matches, in order.              *)
Include == [include : Seq(Conf)]
Directory == [dir : Dirs]
Sysroot == [lines : [Conf -> Seq(Include \cup Directory)], file : SUBSET Conf,
            exists : SUBSET Dirs, relative : SUBSET Dirs]

LoaderAssumption ==
    /\ Root \in Conf /\ MaxDepth \in Nat
    /\ Sysroots \subseteq Sysroot /\ Defaults \in Seq(Dirs)

VARIABLES sysroot, stack, entries, directories, outcome
vars == <<sysroot, stack, entries, directories, outcome>>

IsInclude(line) == "include" \in DOMAIN line
Elements(s) == {s[i] : i \in 1 .. Len(s)}

\* MUTANT of Frame: one include too many is followed.
FrameDeeper(file, depth) ==
    [depth |-> depth,
     lines |-> IF depth > MaxDepth + 1 \/ file \notin sysroot.file
               THEN << >> ELSE sysroot.lines[file]]

(* What reading a file at a depth begins with: its lines, or nothing.         *)
Frame(file, depth) ==
    [depth |-> depth,
     lines |-> IF depth > MaxDepth \/ file \notin sysroot.file
               THEN << >> ELSE sysroot.lines[file]]

(* The files an include matches are read one after the other, each whole: the *)
(* top of the stack is its last element.                                      *)
Frames(s, depth) ==
    [i \in 1 .. Len(s) |-> Frame(s[Len(s) + 1 - i], depth + 1)]

Init ==
    /\ sysroot \in Sysroots
    /\ stack = <<Frame(Root, 0)>>
    /\ entries = << >> /\ directories = << >>
    /\ outcome = "reading"

Top == stack[Len(stack)]
Below == SubSeq(stack, 1, Len(stack) - 1)
Advanced == Append(Below, [Top EXCEPT !.lines = Tail(@)])

Return ==
    /\ outcome = "reading" /\ stack # << >> /\ Top.lines = << >>
    /\ stack' = Below
    /\ UNCHANGED <<sysroot, entries, directories, outcome>>

(* One line of the file at the top.                                           *)
Line ==
    /\ outcome = "reading" /\ stack # << >> /\ Top.lines # << >>
    /\ LET line == Top.lines[1]
       IN  IF IsInclude(line)
           THEN /\ stack' = Advanced \o Frames(line.include, Top.depth)
                /\ entries' = entries
           ELSE /\ stack' = Advanced
                /\ entries' = Append(entries, line.dir)
    /\ UNCHANGED <<sysroot, directories, outcome>>

AddDefaults ==
    /\ outcome = "reading" /\ stack = << >>
    /\ entries' = entries \o Defaults
    /\ outcome' = "choosing"
    /\ UNCHANGED <<sysroot, stack, directories>>

\* MUTANT of Choose: a directory named again moves to the later place.
ChooseLast ==
    /\ outcome = "choosing" /\ entries # << >>
    /\ Head(entries) \notin sysroot.relative
    /\ directories' = IF Head(entries) \in sysroot.exists
                      THEN Append(SelectSeq(directories, LAMBDA d : d # Head(entries)),
                                  Head(entries))
                      ELSE directories
    /\ entries' = Tail(entries)
    /\ UNCHANGED <<sysroot, stack, outcome>>

(* The entries in order: a relative one is refused, one that is no directory  *)
(* or was met before is passed over.                                          *)
Choose ==
    /\ outcome = "choosing" /\ entries # << >>
    /\ Head(entries) \notin sysroot.relative
    /\ directories' = IF /\ Head(entries) \in sysroot.exists
                         /\ Head(entries) \notin Elements(directories)
                      THEN Append(directories, Head(entries)) ELSE directories
    /\ entries' = Tail(entries)
    /\ UNCHANGED <<sysroot, stack, outcome>>

Refuse ==
    /\ outcome = "choosing" /\ entries # << >>
    /\ Head(entries) \in sysroot.relative
    /\ outcome' = "failed"
    /\ UNCHANGED <<sysroot, stack, entries, directories>>

Finish ==
    /\ outcome = "choosing" /\ entries = << >>
    /\ outcome' = "done"
    /\ UNCHANGED <<sysroot, stack, entries, directories>>

Next == Return \/ Line \/ AddDefaults \/ Choose \/ Refuse \/ Finish
Spec == Init /\ [][Next]_vars

-----------------------------------------------------------------------------
(* The reference: the directories a file names at a depth, the included files *)
(* in place of the line that includes them.                                   *)
(* Reads[d][f]: what the file f gives when d more includes may be followed.   *)
Reads[d \in 0 .. MaxDepth + 1] ==
    [f \in Conf |->
        IF d = 0 \/ f \notin sysroot.file THEN << >>
        ELSE FlattenSeq([i \in 1 .. Len(sysroot.lines[f]) |->
                 LET line == sysroot.lines[f][i]
                 IN  IF IsInclude(line)
                     THEN FlattenSeq([j \in 1 .. Len(line.include) |->
                              Reads[d - 1][line.include[j]]])
                     ELSE <<line.dir>>])]

Named == Reads[MaxDepth + 1][Root] \o Defaults

(* The first directory that has a file, out of a search path.                 *)
FirstOf(path, has) ==
    LET hits == {i \in 1 .. Len(path) : path[i] \in has}
    IN  IF hits = {} THEN << >>
        ELSE <<path[CHOOSE i \in hits : \A j \in hits : i <= j]>>

\* Types: the parser reads lines of the configuration, and lists directories.
TypeOK ==
    /\ sysroot \in Sysroot
    /\ \A i \in 1 .. Len(stack) :
           /\ stack[i].depth \in Nat
           /\ \A j \in 1 .. Len(stack[i].lines) :
                  stack[i].lines[j] \in Include \cup Directory
    /\ Elements(entries) \cup Elements(directories) \subseteq Dirs
    /\ outcome \in {"reading", "choosing", "failed", "done"}

(* Includes that lead back to themselves are followed MaxDepth deep and no    *)
(* deeper.                                                                    *)
DepthLimited == \A i \in 1 .. Len(stack) : stack[i].depth <= MaxDepth + 1

(* Leaving out repeated and missing directories changes no search: wherever   *)
(* a library is, the first directory of the result that has it is the first   *)
(* of those the configuration names, in the order it names them.              *)
SearchesAgree ==
    outcome = "done" =>
        \A has \in SUBSET sysroot.exists : FirstOf(directories, has) = FirstOf(Named, has)

(* The directories searched are those the loader's configuration names.       *)
LoaderSearches == TypeOK /\ DepthLimited /\ SearchesAgree

=============================================================================
