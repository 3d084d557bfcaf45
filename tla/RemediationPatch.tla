--------------------------- MODULE RemediationPatch ---------------------------
(***************************************************************************)
(* One patch for one SEAF-004 finding: propose_remediation of              *)
(* aga-skill/tools/remediation.py.  The document is edited as lines of     *)
(* text and read as YAML, and the two views must agree.                    *)
(*                                                                         *)
(* A document is a sequence of blocks, each under the header of a flow in  *)
(* some section, and a block a sequence of lines "key: component" which    *)
(* are fields of the flow or, indented deeper, fields of a field of it.    *)
(***************************************************************************)
EXTENDS Naturals, Sequences, FiniteSets, FiniteSetsExt, Nothing

CONSTANTS
  Components,
  Successor,  \* the component that may be declared a successor
  MaxLines,   \* bound: lines of a block
  Refused     \* what is returned instead of a patch

Sections == {"integrations", "other"}
Endpoints == {"from", "to"}

VARIABLES
  document,    \* the integrations document
  components,  \* the components document: the status and the successor of each
  finding,     \* the endpoint the finding is at
  patch        \* what propose_remediation returned: the patched document or Refused; None before

patchVars == <<document, components, finding, patch>>

Lines == [key : Endpoints, nested : BOOLEAN, component : Components]

\* What strict YAML loads: no key twice, and a nested field has a field above it.
WellFormed(b) ==
  /\ b.lines # <<>> => ~b.lines[1].nested
  /\ \A i, j \in DOMAIN b.lines :
       i # j /\ ~b.lines[i].nested /\ ~b.lines[j].nested => b.lines[i].key # b.lines[j].key

Blocks == {b \in [section : Sections, lines : UNION {[1..n -> Lines] : n \in 1..MaxLines}] : WellFormed(b)}

FlowDocuments == {<<b>> : b \in Blocks}
                 \cup {d \in Blocks \X Blocks : d[1].section # d[2].section}

ComponentStatuses == {"eliminate", "retain", None}

PatchAssumption ==
  /\ MaxLines \in Nat
  /\ Successor \in Components
  /\ None \notin Components /\ None # Refused /\ Refused \notin FlowDocuments

PatchInit ==
  /\ document \in FlowDocuments
  /\ components \in
       {c \in [Components -> [status : ComponentStatuses, successor : {Successor, None}]] :
          c[Successor].successor = None}
  /\ finding \in Endpoints
  /\ patch = None

-----------------------------------------------------------------------------

\* The document as YAML: the fields of the flow, in each section.
Field(d, s, k) ==
  LET found == {l \in UNION {{d[i].lines[j] : j \in DOMAIN d[i].lines} :
                               i \in {i \in DOMAIN d : d[i].section = s}} :
                  ~l.nested /\ l.key = k} IN
  IF found = {} THEN None ELSE (CHOOSE l \in found : TRUE).component

NestedFields(d, s) ==
  {n \in (DOMAIN d) \X (1..MaxLines) :
     d[n[1]].section = s /\ n[2] \in DOMAIN d[n[1]].lines /\ d[n[1]].lines[n[2]].nested}

\* The component is to be eliminated, and its declared successor is to stay.
Replaceable(k) ==
  /\ k # None
  /\ components[k].status = "eliminate"
  /\ components[k].successor # None
  /\ components[components[k].successor].status = "retain"

\* _flow_block_lines: the lines under the first header with the id of the flow, in whatever
\* section it is; the header itself is line 0.
BlockOfFlow == document[1]

\* The lines that read "endpoint: component", however deep.
Anchors(k) == {j \in DOMAIN BlockOfFlow.lines : BlockOfFlow.lines[j].key = finding
                                              /\ BlockOfFlow.lines[j].component = k}

Patched(j, k) == [document EXCEPT ![1].lines[j].component = components[k].successor]

AnyEdit(d, k) == TRUE   \* mutant
\* The patched text is loaded again, and has the successor at the endpoint.
Validated(d, k) == Field(d, "integrations", finding) = components[k].successor

Propose ==
  LET k == Field(document, "integrations", finding) IN
  /\ patch = None
  /\ patch' = IF Replaceable(k) /\ Anchors(k) # {}
              THEN LET after == Patched(Min(Anchors(k)), k) IN
                   IF Validated(after, k) THEN after ELSE Refused
              ELSE Refused
  /\ UNCHANGED <<document, components, finding>>

PatchNext == Propose

PatchSpec == PatchInit /\ [][PatchNext]_patchVars

-----------------------------------------------------------------------------

Offered == patch \notin {None, Refused}

\* SEAF-004: the endpoint depends on a component that is to be eliminated.
Defect(d, k) ==
  LET c == Field(d, "integrations", k) IN c # None /\ components[c].status = "eliminate"

\* A patch that is offered, read as YAML, differs from the document in the endpoint of the
\* finding and nowhere else: not in a nested field, not in another section.
PatchIsMinimal ==
  Offered =>
    /\ \A s \in Sections : \A k \in Endpoints :
         s # "integrations" \/ k # finding => Field(patch, s, k) = Field(document, s, k)
    /\ \A s \in Sections : \A n \in NestedFields(document, s) :
         patch[n[1]].lines[n[2]] = document[n[1]].lines[n[2]]

\* It removes the defect, and brings no other.
PatchResolves ==
  Offered => \A k \in Endpoints : Defect(patch, k) => k # finding /\ Defect(document, k)

\* In a document of one plain block no replaceable endpoint is refused.
PlainDocumentPatched ==
  (/\ patch = Refused
   /\ document[1].section = "integrations"
   /\ \A j \in DOMAIN document[1].lines : ~document[1].lines[j].nested)
  => ~Replaceable(Field(document, "integrations", finding))

\* A patch that is offered changes the endpoint of the finding and nothing else, removes
\* the defect and brings no other; and a plain document is never refused one.
PatchIsRight == PatchIsMinimal /\ PatchResolves /\ PlainDocumentPatched
=============================================================================
