-------------------------- MODULE StructurizrVerify --------------------------
(***************************************************************************)
(* One render from the model file to its manifest: resolveSource of        *)
(* structurizr-source.ts, the two exports, verifyOutput of                 *)
(* structurizr-verify.ts, and the recheck of what was published.  The      *)
(* model's author may edit or move the file at any time, and somebody may  *)
(* touch the files of the output; each is read by its path, at a time of   *)
(* its own.  lstat of a file and the read behind it are one step.          *)
(***************************************************************************)
EXTENDS StructurizrChecks

CONSTANTS
  Docs,    \* contents of the model file, as a function: [size, utf8, lines, lf, workspace,
           \* legends, primary, legend]: lf is the document with LF line ends, legends the
           \* keys with one; the bodies of its diagrams and legends follow
  Elsewhere, \* the documents of the file that a linked ancestor leads to
  Bodies,  \* of SVG files, as a function: [size, events]; size is 0 of an empty file
  MaxModelBytes, MaxSvgBytes, MaxAggregateBytes,
  Changes, \* bound: edits, moves and touched files
  None

Doc == DOMAIN Docs
Body == DOMAIN Bodies
Objects == {"here", "there"}

\* VIEW_KEY_PATTERN admits no dot.
Key == [word: STRING, tails: Nat, safe: BOOLEAN, cased: BOOLEAN]
Dotted == {"workspace.json", "manifest.json", "stray.file"}

ASSUME VerifyAssumption ==
  /\ {Changes, MaxModelBytes, MaxSvgBytes, MaxAggregateBytes} \subseteq Nat
  /\ Elsewhere \subseteq Doc /\ None \notin [object: Objects, regular: BOOLEAN, text: Doc]
  /\ \A d \in Doc : Docs[d].lf \in Doc /\ Docs[Docs[d].lf].lf = Docs[d].lf
  /\ \A d \in Doc : {Docs[d].primary, Docs[d].legend} \subseteq Body
  /\ \A d \in Doc : Docs[d].legends \subseteq Keys(Docs[d].workspace)
  /\ \A d \in Doc : \A k \in Keys(Docs[d].workspace) :
       k \in Key /\ (k.safe => k.word \notin Dotted)

VARIABLES
  path,      \* [ancestor, leaf]: what leads to the model file
  text,      \* of the file here, and of the one a linked ancestor leads to
  fd,        \* the open file: [object, regular, text]
  source,    \* resolveSource's result: the object read and its document
  payload,   \* file name -> content
  pc, failure,
  workspace, \* the parsed one
  todo,      \* files left of the loop
  checked,   \* what passed verifySvgFile: name -> content
  bytes,     \* aggregateBytes
  manifest,  \* [source, keys, files]: files is name -> content, for size and hash
  changes,   \* left of Changes
  moved,     \* history: the path changed between its open and its realpath
  edited,    \* history: an export might have read another document than resolveSource
  touched    \* history: files touched and not verified since

model == <<path, text, fd, source>>
history == <<changes, moved, edited, touched>>
verifier == <<workspace, todo, checked, bytes, manifest>>
vars == <<model, payload, pc, failure, verifier, history>>

Texts == {t \in [Objects -> Doc] : t["there"] \in Elsewhere}
Labels == {"ancestors", "open", "check", "read", "json", "svg", "parse", "map", "svgs",
           "build", "write", "published", "intact", "differs", "failed"}
Codes == {"none", "MODEL_PATH", "SOURCE", "RENDER", "JSON", "VIEW_KEY", "LINEAGE",
          "SVG_SAFETY", "other"}

\* A file: the document it was rendered from, for which view, diagram or legend.
Content == [from: Doc, of: {None} \union UNION {Keys(Docs[d].workspace) : d \in Doc},
            legend: BOOLEAN, body: Body \union {None}]
Json(d) == [from |-> d, of |-> None, legend |-> FALSE, body |-> None]
Svg(d, key, isLegend) ==
  [from |-> d, of |-> key, legend |-> isLegend,
   body |-> IF isLegend THEN Docs[d].legend ELSE Docs[d].primary]
Files(f) == f \in [DOMAIN f -> Content]
Digest(d) == Docs[d].lf    \* of normalizeForHash

\* Files g, or the one file n, are written among the files f.
Over(f, g) ==
  [n \in DOMAIN f \union DOMAIN g |-> IF n \in DOMAIN g THEN g[n] ELSE f[n]]
With(f, n, content) == Over(f, [m \in {n} |-> content])

TypeOK ==
  /\ path \in [ancestor: {"plain", "linked", "absent"}, leaf: {"file", "link", "fifo", "absent"}]
  /\ text \in Texts
  /\ fd = None \/ fd \in [object: Objects, regular: BOOLEAN, text: Doc]
  /\ source = None \/ source \in [object: Objects, text: Doc]
  /\ Files(payload) /\ Files(checked)
  /\ pc \in Labels /\ failure \in Codes /\ (pc = "failed" <=> failure # "none")
  /\ workspace \in Doc \union {None}
  /\ todo \subseteq DOMAIN payload \union DOMAIN checked \union touched
                    \union (IF workspace = None THEN {} ELSE
                            Primaries(Keys(Docs[workspace].workspace))
                            \union Legends(Keys(Docs[workspace].workspace)))
  /\ bytes \in 0..MaxAggregateBytes
  /\ manifest = None \/ (Files(manifest.files) /\ manifest.source \in Doc)
  /\ changes \in 0..Changes /\ moved \in BOOLEAN /\ edited \in BOOLEAN

Init ==
  /\ path \in [ancestor: {"plain", "linked", "absent"}, leaf: {"file", "link", "fifo", "absent"}]
  /\ path.ancestor # "plain" => path.leaf = "file"
  /\ text \in Texts
  /\ fd = None /\ source = None /\ payload = <<>>
  /\ pc = "ancestors" /\ failure = "none"
  /\ workspace = None /\ todo = {} /\ checked = <<>> /\ bytes = 0 /\ manifest = None
  /\ changes = Changes /\ moved = FALSE /\ edited = FALSE /\ touched = {}

-----------------------------------------------------------------------------
(* resolveSource.                                                          *)

Goto(l) == pc' = l /\ UNCHANGED failure
Fail(code) == pc' = "failed" /\ failure' = code
Require(condition, code, l) == IF condition THEN Goto(l) ELSE Fail(code)

\* Where the path leads: with an ancestor linked, to the file there.
Reachable == path.ancestor = "linked" \/ (path.ancestor = "plain" /\ path.leaf \in {"file", "fifo"})
Object == IF path.ancestor = "linked" THEN "there" ELSE "here"

\* verifyAncestors.
VerifyAncestors ==
  /\ pc = "ancestors"
  /\ Require(path.ancestor = "plain", "MODEL_PATH", "open")
  /\ UNCHANGED <<model, payload, verifier, history>>

\* O_NOFOLLOW is about the last component only.
OpenModel ==
  /\ pc = "open"
  /\ Require(Reachable, "MODEL_PATH", "check")
  /\ fd' = IF ~Reachable THEN None
           ELSE [object |-> Object, text |-> text[Object],
                 regular |-> path.ancestor = "linked" \/ path.leaf = "file"]
  /\ UNCHANGED <<path, text, source, payload, verifier, history>>

\* fstat of the open file, realpath of the path: it throws when nothing is there.
CanonicallyAlways == TRUE    \* mutant: realpath is not compared
Canonically == path.ancestor = "plain" /\ path.leaf # "link"
CheckModel ==
  /\ pc = "check"
  /\ IF ~fd.regular \/ Docs[fd.text].size > MaxModelBytes THEN Fail("MODEL_PATH")
     ELSE IF path.ancestor = "absent" \/ path.leaf = "absent" THEN Fail("other")
     ELSE Require(Canonically, "MODEL_PATH", "read")
  /\ UNCHANGED <<model, payload, verifier, history>>

ReadModel ==
  /\ pc = "read"
  /\ IF ~Docs[fd.text].utf8 THEN Fail("MODEL_PATH")
     ELSE Require(~ScanRefuses(Docs[fd.text].lines), "SOURCE", "json")
  /\ source' = [object |-> fd.object, text |-> fd.text] /\ fd' = None
  /\ UNCHANGED <<path, text, payload, verifier, history>>

-----------------------------------------------------------------------------
(* The exports, each a container that reads the mounted path.              *)

Rendered(d) ==
  LET keys == Keys(Docs[d].workspace)
      legends == Docs[d].legends
  IN [n \in Primaries(keys) \union Legends(legends) |->
        IF n \in Legends(legends) THEN Svg(d, CHOOSE k \in legends : Name(k, TRUE) = n, TRUE)
        ELSE Svg(d, CHOOSE k \in keys : Name(k, FALSE) = n, FALSE)]

ExportJson ==
  /\ pc = "json"
  /\ Require(Reachable, "RENDER", "svg")
  /\ payload' = IF Reachable THEN With(payload, WorkspaceJson, Json(text[Object])) ELSE payload
  /\ UNCHANGED <<model, verifier, history>>

ExportSvg ==
  /\ pc = "svg"
  /\ Require(Reachable, "RENDER", "parse")
  /\ payload' = IF Reachable THEN Over(payload, Rendered(text[Object])) ELSE payload
  /\ UNCHANGED <<model, verifier, history>>

-----------------------------------------------------------------------------
(* verifyOutput.                                                           *)

Present(n) == n \in DOMAIN payload

\* parseWorkspace, verifyViewKeys, verifyLineage.
Parse ==
  LET json == Docs[payload[WorkspaceJson].from].workspace
  IN /\ pc = "parse"
     /\ IF ~Present(WorkspaceJson) \/ ~Parses(json) THEN Fail("JSON")
        ELSE IF ~KeysAccepted(json) THEN Fail("VIEW_KEY")
        ELSE Require(LineageHolds(json), "LINEAGE", "map")
     /\ workspace' = IF pc' = "map" THEN payload[WorkspaceJson].from ELSE None
     /\ UNCHANGED <<model, payload, todo, checked, bytes, manifest, history>>

ViewKeys == Keys(Docs[workspace].workspace)

\* mapOutput, and the paths of its inventory.
SvgPathsPrimary == Primaries(ViewKeys)    \* mutant: legends are not verified
SvgPaths == (Primaries(ViewKeys) \union Legends(ViewKeys)) \intersect DOMAIN payload
MapOutput ==
  /\ pc = "map"
  /\ Require(Maps(DOMAIN payload, ViewKeys), "JSON", "svgs")
  /\ todo' = IF pc' = "svgs" THEN SvgPaths ELSE {}
  /\ UNCHANGED <<model, payload, workspace, checked, bytes, manifest, history>>

\* verifySvgFile and the aggregate bound.
SizeOf(n) == IF payload[n].body = None THEN 1 ELSE Bodies[payload[n].body].size
SvgAccepted(n) ==
  /\ Present(n) /\ payload[n].body # None
  /\ SizeOf(n) \in 1..MaxSvgBytes
  /\ Passive(Bodies[payload[n].body].events)
  /\ bytes + SizeOf(n) \leq MaxAggregateBytes
VerifySvg(n) ==
  /\ pc = "svgs" /\ n \in todo
  /\ Require(SvgAccepted(n), "SVG_SAFETY", "svgs")
  /\ todo' = todo \ {n}
  /\ IF SvgAccepted(n)
     THEN checked' = With(checked, n, payload[n]) /\ bytes' = bytes + SizeOf(n)
     ELSE UNCHANGED <<checked, bytes>>
  /\ touched' = touched \ {n}
  /\ UNCHANGED <<model, payload, workspace, manifest, changes, moved, edited>>

\* The second listing, for the manifest, which names the bytes that resolveSource read.
ManifestSourceAgain == Digest(text["here"])    \* mutant: the file is hashed again
ManifestSource == Digest(source.text)
ListFiles ==
  /\ pc = "svgs" /\ todo = {}
  /\ Goto("build")
  /\ todo' = DOMAIN payload \ {ManifestJson}
  /\ manifest' = [source |-> ManifestSource, keys |-> ViewKeys, files |-> <<>>]
  /\ UNCHANGED <<model, payload, workspace, checked, bytes, history>>

\* buildManifest reads every file again.
BuildFile(n) ==
  /\ pc = "build" /\ n \in todo
  /\ Require(Present(n) /\ SizeOf(n) \in 1..MaxSvgBytes, "JSON", "build")
  /\ todo' = todo \ {n}
  /\ manifest' = IF Present(n) THEN [manifest EXCEPT !.files = With(@, n, payload[n])] ELSE manifest
  /\ UNCHANGED <<model, payload, workspace, checked, bytes, history>>

\* serializeManifest, and publish, which renames the directory.
WriteManifest ==
  /\ pc = "build" /\ todo = {}
  /\ Goto("published")
  /\ payload' = With(payload, ManifestJson, Json(source.text))
  /\ UNCHANGED <<model, verifier, history>>

-----------------------------------------------------------------------------
(* The recheck: parseManifest and verifyManifestAgainstDirectory.          *)

VolatileKeys == {"timestamp", "generatedAt", "date", "hostname", "host", "pid", "nonce", "runId",
                 "user", "cwd"}

\* A volatile word anywhere in the text between quotes, as a view may be.
Volatile == \E k \in manifest.keys : k.word \in VolatileKeys /\ k.tails = 0

SameFilesAny == DOMAIN manifest.files \subseteq DOMAIN payload    \* mutant: others may be there
SameFiles == DOMAIN payload \ {ManifestJson} = DOMAIN manifest.files
Recheck ==
  /\ pc = "published"
  /\ IF ~Volatile /\ SameFiles /\ \A n \in DOMAIN manifest.files : payload[n] = manifest.files[n]
     THEN Goto("intact") ELSE Goto("differs")
  /\ UNCHANGED <<model, payload, verifier, history>>

-----------------------------------------------------------------------------
(* The author of the model, and whoever touches the output.                *)

Running == pc \notin {"intact", "differs", "failed"}
Change == Running /\ changes > 0 /\ changes' = changes - 1
Reading == pc \in {"json", "svg"}    \* an export is still to read the path

\* In place, so that an open file shows it, or by renaming another file over it.
Edit ==
  /\ Change
  /\ \E o \in Objects, d \in Doc, inPlace \in BOOLEAN :
       /\ text[o] # d /\ text' = [text EXCEPT ![o] = d] /\ text' \in Texts
       /\ fd' = IF inPlace /\ fd # None /\ fd.object = o THEN [fd EXCEPT !.text = d] ELSE fd
       /\ edited' = (edited \/ Reading \/ (pc \in {"check", "read"} /\ ~inPlace))
  /\ UNCHANGED <<path, source, payload, pc, failure, verifier, moved, touched>>

\* A checkout, or the directory moved away and linked.
Move ==
  /\ Change
  /\ \E a \in {"plain", "linked", "absent"}, l \in {"file", "link", "fifo", "absent"} :
       /\ path' = [ancestor |-> a, leaf |-> l] /\ path' # path
       /\ a # "plain" => l = "file"
  /\ moved' = (moved \/ pc = "check")
  /\ edited' = (edited \/ Reading \/ pc \in {"check", "read"})
  /\ UNCHANGED <<text, fd, source, payload, pc, failure, verifier, touched>>

Stray == <<"stray.file", 0, FALSE>>
Touch ==
  /\ Change /\ payload # <<>>
  /\ \E n \in (DOMAIN payload \ {ManifestJson}) \union {Stray} :
       /\ \/ \E b \in Body : n # WorkspaceJson
               /\ payload' = With(payload, n, [from |-> source.text, of |-> None,
                                              legend |-> FALSE, body |-> b])
          \/ Present(n) /\ payload' = [m \in DOMAIN payload \ {n} |-> payload[m]]
       /\ payload' # payload /\ touched' = touched \union {n}
  /\ UNCHANGED <<model, pc, failure, verifier, moved, edited>>

Next ==
  \/ VerifyAncestors \/ OpenModel \/ CheckModel \/ ReadModel
  \/ ExportJson \/ ExportSvg
  \/ Parse \/ MapOutput \/ ListFiles \/ WriteManifest \/ Recheck
  \/ \E n \in todo : VerifySvg(n) \/ BuildFile(n)
  \/ Edit \/ Move \/ Touch

Spec == Init /\ [][Next]_vars

-----------------------------------------------------------------------------
(* Properties.                                                             *)

Accepted == pc \in {"published", "intact", "differs"}

\* "Build the manifest from what was actually verified": a published SVG is one that
\* verifySvgFile accepted with that content, the rest is workspace.json; unless somebody
\* touched the file after its check, for it is read again.
ManifestHonest ==
  Accepted => \A n \in DOMAIN manifest.files \ ({WorkspaceJson} \union touched) :
                n \in DOMAIN checked /\ manifest.files[n] = checked[n]

\* Without the exception: it is not kept.
ManifestVerified ==
  Accepted => \A n \in DOMAIN manifest.files \ {WorkspaceJson} :
                n \in DOMAIN checked /\ manifest.files[n] = checked[n]

\* The files that the exports wrote.
Exported == {n \in DOMAIN manifest.files : n = WorkspaceJson \/ manifest.files[n].of # None}

\* The manifest answers which model: every file the exports wrote was rendered from the
\* document it names, unless the model was edited before both exports had read it.
Provenance ==
  Accepted /\ ~edited =>
    \A n \in Exported : Digest(manifest.files[n].from) = manifest.source

\* Without the exception: it is not kept.
ManifestOfModel ==
  Accepted => \A n \in Exported : Digest(manifest.files[n].from) = manifest.source

\* What is accepted came from the file at the canonical path itself, whatever was moved
\* and linked meanwhile, unless the path changed between its open and its realpath.
SourceCanonical == source # None => source.object = "here" \/ moved

\* "The opened object's real path must be exactly the real-root join": without the
\* exception it is not kept.
SourceOpened == source # None => source.object = "here"

\* Every view has its own diagram: its primary file holds the diagram of that view, not a
\* legend's or another view's, and no two files share a name that differs in case only.
OwnDiagrams ==
  Accepted /\ ~edited =>
    /\ \A k \in manifest.keys : Name(k, FALSE) \in Exported =>
         manifest.files[Name(k, FALSE)].of = k /\ ~manifest.files[Name(k, FALSE)].legend
    /\ \A m, n \in DOMAIN manifest.files : m[1] = n[1] /\ m[2] = n[2] => m = n

\* "Manifest tampering is rejected": what the recheck finds intact is what the manifest
\* lists, file by file and no other, and it refuses nothing else but a volatile name.
RecheckExact ==
  /\ pc = "intact" => manifest.files = [n \in DOMAIN payload \ {ManifestJson} |-> payload[n]]
  /\ pc = "differs" /\ touched = {} => Volatile

\* Without the exception: a view called user or host makes the manifest unreadable.
RoundTrip == pc = "differs" => touched # {}
=============================================================================
