--------------------------- MODULE RepositorySnapshot --------------------------
(***************************************************************************)
(* The snapshot of a review (tools/repository_snapshot.py): the files of   *)
(* one commit that its manifest reaches, with a dependency checked out at  *)
(* a pinned commit, copied to a private directory; and what                *)
(* prepare_seaf_review (tools/seaf_review.py) reads of it with the         *)
(* resolver of tools/seaf_native.py, under one set of rules.               *)
(*                                                                         *)
(* A world is what the two commits hold: status is what git diff says of a *)
(* file ("retyped" is T), odd are the files that are no regular ones at    *)
(* the head, oddBase those that are none, or no documents, at the base;    *)
(* imports and refs are the imports of a YAML file at the head and its     *)
(* other references, pin the checksum and revision its import of a         *)
(* dependency carries; gitlink says what the head has of the dependency:   *)
(* the trusted commit, as the base has it or newly, or another one.  What  *)
(* a file holds is named by the commit it was read at.  While a review is  *)
(* prepared the two branches, the checkout of the dependency, the rules    *)
(* and the copied files may change.                                        *)
(***************************************************************************)
EXTENDS Naturals, Sequences, FiniteSets, SequencesExt

CONSTANTS
  Worlds,         \* the contents of the repository a behaviour may begin with
  Manifest,       \* dochub.yaml
  Yaml,           \* the repository's own YAML files, the manifest among them
  Attached,       \* its other files: diagrams, texts, and files of no known type
  Core,           \* YAML files of the dependency
  MaxDepth,       \* DEFAULT_MAX_DEPTH
  MaxFiles,       \* DEFAULT_MAX_FILES
  ResolverDepth,  \* max_depth of prepare_seaf_review
  MaxEdits,       \* bound: edits while the review is prepared
  Restores,       \* whether an edit may be taken back
  None

SnapshotAssumption ==
  /\ Manifest \in Yaml
  /\ MaxDepth \in Nat /\ MaxFiles \in Nat \ {0} /\ ResolverDepth \in Nat /\ MaxEdits \in Nat
  /\ Restores \in BOOLEAN

Paths == Yaml \cup Attached \cup Core

\* What a file holds: the commit it is of, the pinned commit of the dependency, or neither.
Pinned  == 0
Foreign == MaxEdits + 2

VARIABLES
  world,
  now,      \* both branches, the checkout and the rules as they are, and the edits made
  step,     \* where the preparation is
  commit,   \* the base and the head commit of the snapshot
  pending,  \* the files to be read, with their depth
  queued,   \* the files that were ever pending
  blobs,    \* the files read
  pins,     \* the checksums files must have
  sides,    \* of each changed file, what was read of its base and of its head
  digest,   \* of the rules, in the snapshot's provenance
  staged,   \* the copies
  rules,    \* the rules loaded
  stack,    \* the resolver's documents under way, with their imports left
  loaded,   \* the documents it has read
  outcome

building == <<commit, pending, queued, blobs, pins, sides, digest, staged>>
reading == <<rules, stack, loaded>>
vars == <<world, now, step, building, reading, outcome>>

Init ==
  /\ world \in Worlds
  /\ now = [base |-> 1, branch |-> 1, checkout |-> 1, rules |-> 1, edits |-> 0]
  /\ step = "base" /\ commit = [base |-> None, head |-> None]
  /\ pending = {<<0, Manifest>>} /\ queued = {Manifest}
  /\ blobs = << >> /\ pins = {} /\ sides = << >>
  /\ digest = None /\ staged = << >>
  /\ rules = None /\ stack = <<>> /\ loaded = << >>
  /\ outcome = None

-----------------------------------------------------------------------------
(* What is read of a world.                                                *)

Kind(p) == IF p \in Yaml \cup Core THEN "yaml" ELSE world.kind[p]

Supported(p) == Kind(p) # "other"

AtHead(p) == p \in Core \/ world.status[p] \in {"same", "added", "modified"}

\* _imports and _context_references: the files a YAML file names.
Imports(p) == world.imports[p]
References(p) == world.imports[p] \cup world.refs[p]

\* _changes: all the changed files, and those of the scope.
Differing == {p \in Yaml \cup Attached : world.status[p] \notin {"same", "absent"}}
Changed == Differing \cap world.scope
Kept == {p \in Changed : world.status[p] # "deleted"}

\* The changed files whose base side is a review input too.
HasBase ==
  {p \in Changed : \/ world.status[p] = "deleted"
                   \/ world.status[p] = "modified" /\ Kind(p) = "yaml"}

\* The paths of the diff, that of the dependency among them.
DiffSize == Cardinality(Differing) + (IF world.gitlink = "pinned" THEN 0 ELSE 1)

\* The checksum of an import that carries a revision; a file of the dependency has one content.
Checksum(p) == IF world.pin[p] = "sum" THEN "wrong" ELSE "right"
Pins(p) == IF world.pin[p] = None THEN {} ELSE {<<q, Checksum(p)>> : q \in Imports(p) \cap Core}

\* _verify_dependency_checkout: at its pinned commit and clean.
CheckoutClean == now.checkout = 1

-----------------------------------------------------------------------------
(* RepositorySnapshotBuilder.build.                                        *)

Refuse ==
  /\ outcome' = "refused" /\ step' = "over"
  /\ UNCHANGED <<world, now, building, reading>>

\* Two names become two commits, one after the other; from here on files are read by the
\* commit.
ResolveCommits ==
  /\ \/ step = "base" /\ commit' = [commit EXCEPT !.base = now.base] /\ step' = "head"
     \/ step = "head" /\ commit' = [commit EXCEPT !.head = now.branch] /\ step' = "diff"
  /\ UNCHANGED <<world, now, pending, queued, blobs, pins, sides, digest, staged, reading, outcome>>

\* _changes: whatever the scope, nothing but added, modified and deleted files, and not too many.
Diff ==
  /\ step = "diff"
  /\ IF (\A p \in Differing : world.status[p] # "retyped") /\ DiffSize <= MaxFiles
       THEN /\ step' = "verify"
            /\ UNCHANGED <<world, now, building, reading, outcome>>
       ELSE Refuse

\* _verify_dependencies, _validate_changes.
Verify ==
  /\ step = "verify"
  /\ IF world.gitlink # "other" /\ CheckoutClean /\ Kept \cap world.odd = {}
       THEN /\ step' = "closure"
            /\ UNCHANGED <<world, now, building, reading, outcome>>
       ELSE Refuse

\* mutant: the file is read by the name of the branch
FoundByName(p) == IF p \notin Core THEN now.branch ELSE IF CheckoutClean THEN Pinned ELSE Foreign

\* _read_snapshot_file: a regular file of the commit, or of the dependency if what is in the
\* checkout is what its pinned commit has.
Found(p) == IF p \notin Core THEN commit.head ELSE IF CheckoutClean THEN Pinned ELSE Foreign
CanRead(p) == AtHead(p) /\ p \notin world.odd /\ (p \in Core => Found(p) = Pinned)

PinsMatch(ps) == \A pin \in ps : pin[2] = "right"

\* _collect_closure: one file of the least depth. The order among files of one depth, by
\* path in the code, is left open.
Collect ==
  /\ step = "closure"
  /\ \E next \in pending :
       LET depth == next[1]
           p == next[2]
           named == IF Kind(p) = "yaml" THEN References(p) ELSE {}
           mine == IF Kind(p) = "yaml" THEN Pins(p) ELSE {}
       IN
       /\ \A other \in pending : depth <= other[1]
       /\ IF /\ depth <= MaxDepth /\ Cardinality(DOMAIN blobs) < MaxFiles
             /\ Supported(p) /\ CanRead(p)
             \* a file already read must match at once, and two pins of one file each other
             /\ PinsMatch({pin \in mine : pin[1] \in DOMAIN blobs \cup {p}})
             /\ \A one, two \in pins \cup mine : one[1] = two[1] => one = two
            THEN /\ blobs' = [q \in DOMAIN blobs \cup {p} |->
                                IF q = p THEN Found(p) ELSE blobs[q]]
                 /\ pins' = pins \cup mine
                 /\ pending' = (pending \ {next}) \cup {<<depth + 1, q>> : q \in named \ queued}
                 /\ queued' = queued \cup named
                 /\ UNCHANGED <<world, now, step, commit, sides, digest, staged, reading,
                               outcome>>
            ELSE Refuse

\* The pins again, and the checkout.
FinishClosure ==
  /\ step = "closure" /\ pending = {}
  /\ IF PinsMatch(pins) /\ CheckoutClean
       THEN /\ step' = "changes"
            /\ UNCHANGED <<world, now, building, reading, outcome>>
       ELSE Refuse

\* No change of a type that is not known, and no changed YAML file or diagram that the
\* manifest does not reach.
NoneOmitted == {p \in Kept : Kind(p) \in {"yaml", "diagram"}} \subseteq DOMAIN blobs

\* Changed files the manifest does not reach are read too; then the base sides, which must
\* be regular files and, of YAML files, documents.  A changed gitlink has no file to be hashed
\* and is refused.  What is staged is what was read of the head.
Materialize ==
  /\ step = "changes"
  /\ IF /\ \A p \in Changed : Supported(p)
        /\ NoneOmitted
        /\ Cardinality(DOMAIN blobs \cup Kept) <= MaxFiles
        /\ HasBase \cap world.oddBase = {}
        /\ world.gitlink # "updated"
       THEN /\ blobs' = [p \in DOMAIN blobs \cup Kept |->
                           IF p \in DOMAIN blobs THEN blobs[p] ELSE Found(p)]
            /\ sides' = [p \in Changed |->
                           [base |-> IF p \in HasBase THEN commit.base ELSE None,
                            head |-> IF p \in Kept THEN blobs'[p] ELSE None]]
            /\ digest' = now.rules
            /\ staged' = blobs'
            /\ step' = "rules"
            /\ UNCHANGED <<world, now, commit, pending, queued, pins, reading, outcome>>
       ELSE Refuse

-----------------------------------------------------------------------------
(* prepare_seaf_review.                                                    *)

\* The rules on the disk are those of the snapshot, before and after they are loaded.
CheckRules ==
  /\ step \in {"rules", "loaded"}
  /\ IF now.rules = digest
       THEN /\ step' = IF step = "rules" THEN "load" ELSE "staged"
            /\ UNCHANGED <<world, now, building, reading, outcome>>
       ELSE Refuse

LoadRules ==
  /\ step = "load"
  /\ rules' = now.rules /\ step' = "loaded"
  /\ UNCHANGED <<world, now, building, stack, loaded, outcome>>

\* assert_integrity: every copy is what was captured.
Intact == staged = blobs

\* RepositorySnapshot.resolve begins with the integrity of the copies.
BeginResolve ==
  /\ step = "staged"
  /\ IF Intact
       THEN /\ step' = "resolve"
            /\ stack' = <<[path |-> None, left |-> {Manifest}]>>
            /\ UNCHANGED <<world, now, building, rules, loaded, outcome>>
       ELSE Refuse

\* DocHubImportResolver.visit: the next import of the document on top. A document under way
\* is a cycle, one that was read before is passed over. The order of the imports is left open.
Visit ==
  /\ step = "resolve" /\ stack # <<>> /\ Last(stack).left # {}
  /\ \E p \in Last(stack).left :
       LET importer == Last(stack).path
           rest == Append(Front(stack), [Last(stack) EXCEPT !.left = @ \ {p}])
           pin == IF importer = None \/ p \notin Core THEN None ELSE world.pin[importer]
       IN
       IF \/ pin = "revision"
          \/ \E i \in 1 .. Len(stack) : stack[i].path = p
          \/ Len(stack) - 1 > ResolverDepth
          \/ pin = "sum"
          \/ Kind(p) # "yaml"
       THEN Refuse
       ELSE /\ IF p \in DOMAIN loaded
                 THEN stack' = rest /\ UNCHANGED loaded
                 ELSE /\ stack' = Append(rest, [path |-> p, left |-> Imports(p)])
                      /\ loaded' = [q \in DOMAIN loaded \cup {p} |->
                                      IF q = p THEN staged[p] ELSE loaded[q]]
            /\ UNCHANGED <<world, now, step, building, rules, outcome>>

Return ==
  /\ step = "resolve" /\ stack # <<>> /\ Last(stack).left = {}
  /\ stack' = Front(stack)
  /\ UNCHANGED <<world, now, step, building, rules, loaded, outcome>>

\* The integrity again, after the documents were read and after they were adapted.
Prepared ==
  /\ step = "resolve" /\ stack = <<>>
  /\ IF Intact
       THEN /\ outcome' = "prepared" /\ step' = "over"
            /\ UNCHANGED <<world, now, building, reading>>
       ELSE Refuse

-----------------------------------------------------------------------------
(* Others.                                                                 *)

Edit ==
  /\ now.edits < MaxEdits /\ step # "over"
  /\ UNCHANGED <<world, step, commit, pending, queued, blobs, pins, sides, digest, reading, outcome>>
  /\ \/ /\ \E what \in {"base", "branch", "checkout", "rules"} :
             now' = [now EXCEPT ![what] = IF Restores THEN 3 - @ ELSE @ + 1, !.edits = @ + 1]
        /\ UNCHANGED staged
     \/ \E p \in DOMAIN staged :
          /\ staged' = [staged EXCEPT ![p] = IF Restores /\ @ = Foreign THEN blobs[p]
                                             ELSE Foreign]
          /\ now' = [now EXCEPT !.edits = @ + 1]

Next ==
  \/ ResolveCommits \/ Diff \/ Verify \/ Collect \/ FinishClosure \/ Materialize
  \/ CheckRules \/ LoadRules \/ BeginResolve \/ Visit \/ Return \/ Prepared
  \/ Edit

Spec == Init /\ [][Next]_vars

-----------------------------------------------------------------------------
(* The reference: what a world reaches.                                    *)

\* What a file of the snapshot is to hold.
Content(p) == IF p \in Core THEN Pinned ELSE commit.head

\* The files within n references of the manifest.
Within[n \in 0 .. MaxDepth] ==
  IF n = 0 THEN {Manifest}
  ELSE Within[n - 1] \cup UNION {References(p) : p \in Within[n - 1] \cap (Yaml \cup Core)}
Reached == Within[MaxDepth]

\* The YAML files within n imports of p.
After(p) ==
  LET A[n \in 0 .. Cardinality(Paths)] ==
        IF n = 0 THEN Imports(p) ELSE A[n - 1] \cup UNION {Imports(q) : q \in A[n - 1] \cap (Yaml \cup Core)}
  IN A[Cardinality(Paths)]
Imported == {Manifest} \cup After(Manifest)

\* A repository a review must not refuse, whose files are within the limits of bytes: the
\* dependency is not changed, and no file of the diff changes its type, in the scope or not.
Sound ==
  /\ world.gitlink = "pinned"
  /\ \A p \in Differing : world.status[p] # "retyped"
  /\ Cardinality(Differing) <= MaxFiles
  /\ HasBase \cap world.oddBase = {}
  /\ (Reached \cup Kept) \cap world.odd = {}
  /\ \A p \in Reached \cup Changed : Supported(p)
  /\ \A p \in Reached :
       /\ AtHead(p)
       /\ p \in Yaml \cup Core => References(p) \subseteq Reached
  /\ {p \in Kept : Kind(p) \in {"yaml", "diagram"}} \subseteq Reached
  /\ Cardinality(Reached \cup Kept) <= MaxFiles
  /\ \A p \in Imported :
       /\ Kind(p) = "yaml"
       /\ p \notin After(p)
  /\ \A p \in Reached \cap (Yaml \cup Core) : Imports(p) \cap Core # {} => world.pin[p] \in {None, "right"}

-----------------------------------------------------------------------------
(* Properties.                                                             *)

\* What is reviewed is the one commit's: the files its manifest reaches and the changed ones,
\* each as the commit or the pinned dependency has it, whatever moved meanwhile; no change
\* in the scope is missing; and each is a change from one base to that commit.
SnapshotIsExact ==
  outcome = "prepared" =>
    /\ DOMAIN blobs = Reached \cup Kept
    /\ \A p \in DOMAIN blobs : blobs[p] = Content(p)
    /\ \A p \in Kept : Kind(p) \in {"yaml", "diagram"} => p \in Reached
    /\ DOMAIN sides = Changed
    /\ \A p \in Changed :
         /\ sides[p].head = IF p \in Kept THEN commit.head ELSE None
         /\ sides[p].base # None => sides[p].base = commit.base
         /\ sides[p].base = None => p \in Kept /\ (p \in Yaml => world.status[p] = "added")

\* The documents are the imports of the manifest, as they were captured, and pinned imports
\* are what their pins say.
DocumentsAreCaptured ==
  outcome = "prepared" =>
    /\ DOMAIN loaded = Imported
    /\ \A p \in Imported : loaded[p] = Content(p)
    /\ \A p \in Reached \cap (Yaml \cup Core) :
         \A pin \in Pins(p) : pin[2] = "right"

\* The rules of a review are those its provenance names.
RulesAreNamed == outcome = "prepared" => rules = digest

\* A sound repository that nobody edits is not refused.
SoundAccepted == outcome = "refused" /\ now.edits = 0 => ~Sound

\* Every changed YAML file is read as a document: it does not hold. A file that is only
\* referred to is copied and not resolved.
ChangedIsRead ==
  outcome = "prepared" => {p \in Kept : Kind(p) = "yaml"} \subseteq DOMAIN loaded
=============================================================================
