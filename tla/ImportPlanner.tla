----------------------------- MODULE ImportPlanner -----------------------------
(***************************************************************************)
(* App.PlanImport: a walk through a folder that asks every data source about*)
(* every entry, and lets a data source claim a folder as a whole once it    *)
(* recognises enough of its files.  What comes out is the plan that an      *)
(* ImportJob follows.                                                       *)
(***************************************************************************)
EXTENDS Integers, FiniteSets, SequencesExt

CONSTANTS
  None,
  Sources,    (* names of data sources                                      *)
  Trees,      (* what there is to walk, each in the order of fs.WalkDir     *)
  Recursives  (* whether folders that nobody recognises are entered         *)

(* A path is the sequence of its names, and a name that of its letters; the *)
(* first path is that of the folder that the user chose.  found holds, for  *)
(* each data source that recognises the entry, how many hundredths of the   *)
(* files in a folder it wants to claim it, or 0.  Hidden entries may be     *)
(* left out.                                                                *)
PlannerAssumption ==
  \A t \in Trees : \A i \in DOMAIN t :
    /\ t[i].dir \in BOOLEAN /\ t[i].hidden \in BOOLEAN
    /\ i > 1 => \E k \in 1..i - 1 : t[k].dir /\ Front(t[i].path) = t[k].path
    /\ \A f \in ToSet(t[i].found) : f.source \in Sources /\ f.threshold \in 0..100

VARIABLES
  walked, recursive,
  n,          (* the entry that is next                                     *)
  tree,       (* the folders that the walk is in, as it believes            *)
  currentDir,
  pairings,   (* what was recognised, by folder                             *)
  dirSizes,   (* the files of each folder                                   *)
  phase

vars == <<walked, recursive, n, tree, currentDir, pairings, dirSizes, phase>>

Root == walked[1].path

(* What a function has, or what stands for nothing.                         *)
At(f, d, nothing) == IF d \in DOMAIN f THEN f[d] ELSE nothing
Put(f, d, v) == [x \in DOMAIN f \cup {d} |-> IF x = d THEN v ELSE f[x]]

(* strings.HasPrefix of two paths: the last name of the shorter one may be  *)
(* the beginning of another name.                                           *)
HasPrefix(path, dir) ==
  /\ Len(dir) <= Len(path)
  /\ Front(dir) = SubSeq(path, 1, Len(dir) - 1)
  /\ IsPrefix(Last(dir), path[Len(dir)])
Within(path, dir) == Len(dir) < Len(path) /\ IsPrefix(dir, path)

-----------------------------------------------------------------------------
(* finalizeDirectory                                                        *)

Counted(of, s) == {i \in DOMAIN of : \E f \in ToSet(of[i].sources) : f.source = s /\ f.threshold > 0}
Threshold(of, s) ==
  LET last == CHOOSE i \in Counted(of, s) : \A k \in Counted(of, s) : k <= i
  IN (CHOOSE f \in ToSet(of[last].sources) : f.source = s).threshold

(* Mutant of Claims: a folder is claimed once its threshold is reached by   *)
(* what is recognised in any way.                                           *)
ClaimsOfAny(ps, dir) ==
  LET of == At(ps, dir, <<>>) IN
  IF Len(of) <= 1 \/ dir \notin DOMAIN dirSizes THEN {} ELSE {s \in Sources : Counted(of, s) # {}}

(* The data sources that recognise a larger share of the files than they    *)
(* ask for; a folder with one match stays as it is.                         *)
Claims(ps, dir) ==
  LET of == At(ps, dir, <<>>) IN
  IF Len(of) <= 1 \/ dir \notin DOMAIN dirSizes THEN {}
  ELSE {s \in Sources : /\ Counted(of, s) # {}
                        /\ 100 * Cardinality(Counted(of, s)) > Threshold(of, s) * dirSizes[dir]}

(* Those that claim the folder are removed from everything below it, and    *)
(* what is left without a data source goes.                                 *)
Without(of, claims) ==
  SelectSeq([i \in DOMAIN of |-> [of[i] EXCEPT !.sources = SelectSeq(@, LAMBDA f : f.source \notin claims)]],
            LAMBDA p : p.sources # <<>>)

(* Mutant of Finalized: only what was found in the folder itself is removed.*)
FinalizedHere(ps, dir) ==
  LET claims == Claims(ps, dir) IN
  IF claims = {} THEN ps
  ELSE Put(ps, dir, Append(Without(ps[dir], claims),
           [path |-> dir, sources |-> SetToSeq({[source |-> s, threshold |-> 0] : s \in claims})]))

Finalized(ps, dir) ==
  LET claims == Claims(ps, dir)
      left == [d \in DOMAIN ps |-> IF HasPrefix(d, dir) THEN Without(ps[d], claims) ELSE ps[d]]
  IN IF claims = {} THEN ps
     ELSE Put(left, dir, Append(left[dir],
              [path |-> dir, sources |-> SetToSeq({[source |-> s, threshold |-> 0] : s \in claims})]))

FinalizedAll(ps, dirs) == FoldLeft(Finalized, ps, dirs)

-----------------------------------------------------------------------------

Init ==
  /\ walked \in Trees /\ recursive \in Recursives
  /\ n = 1
  /\ tree = <<walked[1].path>> /\ currentDir = walked[1].path
  /\ pairings = <<>> /\ dirSizes = <<>>
  /\ phase = "walk"

Entry == walked[n]

(* fs.SkipDir, or the next entry.                                           *)
Following(skip) ==
  IF ~(skip /\ Entry.dir) THEN n + 1
  ELSE CHOOSE k \in n + 1..Len(walked) + 1 :
         /\ k <= Len(walked) => ~Within(walked[k].path, Entry.path)
         /\ \A j \in n + 1..k - 1 : Within(walked[j].path, Entry.path)

Walking == phase = "walk" /\ n <= Len(walked)

Hidden ==
  /\ Walking /\ n > 1 /\ Entry.hidden
  /\ n' = Following(TRUE)
  /\ UNCHANGED <<walked, recursive, tree, currentDir, pairings, dirSizes, phase>>

(* The folder of an entry; the one that the user chose is in itself.        *)
DirOf(e) == IF e.path = Root THEN Root ELSE Front(e.path)

(* How many folders at the end of the tree do not hold this one.            *)
Left(dir) ==
  CHOOSE k \in 0..Len(tree) :
    /\ k < Len(tree) => Within(dir, tree[Len(tree) - k])
    /\ \A j \in 0..k - 1 : ~Within(dir, tree[Len(tree) - j])

(* Entering a folder finalizes those that were left before it; leaving one  *)
(* finalizes it, but however many are left at once, one is forgotten.       *)
Entered(dir) ==
  CASE dir = currentDir -> [tree |-> tree, pairings |-> pairings]
    [] Within(dir, currentDir) ->
         [tree |-> Append(SubSeq(tree, 1, Len(tree) - Left(dir)), dir),
          pairings |-> FinalizedAll(pairings, Reverse(SubSeq(tree, Len(tree) - Left(dir) + 1, Len(tree))))]
    [] OTHER -> [tree |-> Front(tree), pairings |-> Finalized(pairings, currentDir)]

(* An entry is recognised, or not; a folder that is recognised is not       *)
(* entered, as the data source will do that.                                *)
Visit ==
  /\ Walking /\ (n > 1 => ~Entry.hidden)
  /\ LET dir == DirOf(Entry) IN
       /\ tree' = Entered(dir).tree
       /\ pairings' = IF Entry.found = <<>> THEN Entered(dir).pairings
                      ELSE Put(Entered(dir).pairings, dir,
                               Append(At(Entered(dir).pairings, dir, <<>>),
                                      [path |-> Entry.path, sources |-> Entry.found]))
       /\ currentDir' = dir
       /\ dirSizes' = IF Entry.dir THEN dirSizes ELSE Put(dirSizes, dir, At(dirSizes, dir, 0) + 1)
       /\ n' = Following(Entry.found # <<>> \/ ~recursive)
  /\ UNCHANGED <<walked, recursive, phase>>

(* The folder that the walk ended in, and those that it believes it is in.  *)
Finish ==
  /\ phase = "walk" /\ n > Len(walked)
  /\ pairings' = FinalizedAll(pairings, <<currentDir>> \o Reverse(tree))
  /\ tree' = <<>>
  /\ phase' = "done"
  /\ UNCHANGED <<walked, recursive, n, currentDir, dirSizes>>

(* The context is cancelled, or a data source fails at an entry.            *)
Fail ==
  /\ phase = "walk"
  /\ phase' = "error"
  /\ UNCHANGED <<walked, recursive, n, tree, currentDir, pairings, dirSizes>>

Next == Hidden \/ Visit \/ Finish \/ Fail

Spec == Init /\ [][Next]_vars

-----------------------------------------------------------------------------

TypeOK ==
  /\ n \in 1..Len(walked) + 1
  /\ currentDir \in {DirOf(walked[i]) : i \in DOMAIN walked}
  /\ DOMAIN pairings \subseteq {DirOf(walked[i]) : i \in DOMAIN walked}
  /\ \A d \in DOMAIN pairings : \A p \in ToSet(pairings[d]) : p.sources # <<>>
  /\ phase \in {"walk", "done", "error"}

(* What the plan gives to a data source.                                    *)
Given(s) == UNION {{p.path : p \in {q \in ToSet(pairings[d]) : \E f \in ToSet(q.sources) : f.source = s}} :
                     d \in DOMAIN pairings}
Covers(path, given) == path = given \/ Within(path, given)

(* The entries that data sources are asked about.                           *)
Asked == {i \in DOMAIN walked :
            /\ i > 1 => ~walked[i].hidden
            /\ \A k \in DOMAIN walked : Within(walked[i].path, walked[k].path) =>
                 recursive /\ walked[k].found = <<>> /\ (k > 1 => ~walked[k].hidden)}

(* Beside it is a folder that the data source claims, whose name this one's *)
(* begins with: what it found here is removed all the same.                 *)
IsTakenForAnother(path, s) ==
  \E given \in Given(s) : \E k \in 1..Len(path) :
    LET dir == SubSeq(path, 1, k) IN HasPrefix(dir, given) /\ ~Covers(dir, given)

(* The entries of a folder that it was asked about and that it recognises.  *)
Seen(dir) == {i \in Asked : i > 1 /\ DirOf(walked[i]) = dir}
By(s, i) == {f.threshold : f \in {g \in ToSet(walked[i].found) : g.source = s}}

(* What a data source recognises it is given once: by itself, or with a     *)
(* folder, however the folders that are claimed lie in each other; and a    *)
(* folder goes to it as a whole only once all of it was seen, and enough    *)
(* was recognised (bindings.go:371-483, 533-563, 626-640).                  *)
PlansAreComplete ==
  phase = "done" =>
    \A s \in Sources :
      /\ \A i \in Asked : (\E f \in ToSet(walked[i].found) : f.source = s) =>
           IsTakenForAnother(walked[i].path, s)
           \/ Cardinality({given \in Given(s) : Covers(walked[i].path, given)}) = 1
      /\ \A d \in Given(s) \cap DOMAIN pairings : d # Root \/ walked[1].found = <<>> =>
           \E t \in UNION {By(s, i) : i \in Seen(d)} :
             100 * Cardinality({i \in Seen(d) : \E u \in By(s, i) : u > 0})
               > t * Cardinality({i \in Seen(d) : ~walked[i].dir})
      /\ \A d \in DOMAIN pairings : \A i, k \in DOMAIN pairings[d] :
           i # k => pairings[d][i].path # pairings[d][k].path
                    \/ {f.source : f \in ToSet(pairings[d][i].sources)}
                       \cap {f.source : f \in ToSet(pairings[d][k].sources)} = {}
==============================================================================
