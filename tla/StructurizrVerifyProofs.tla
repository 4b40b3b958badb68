----------------------- MODULE StructurizrVerifyProofs -----------------------
(***************************************************************************)
(* For any documents and diagrams, any bounds and any number of edits,     *)
(* moves and touched files: what the manifest of a render says is true of  *)
(* the model that was read and of the files that were verified.            *)
(***************************************************************************)
EXTENDS StructurizrVerify, SequenceTheorems, TLAPS

-----------------------------------------------------------------------------
(* The inductive invariant.                                                *)

Early == {"ancestors", "open", "check", "read"}          \* before the first export
Listed == {"build", "published", "intact", "differs"}    \* the manifest is begun
KeysKnown == {"map", "svgs"} \union Listed
File == [object: Objects, regular: BOOLEAN, text: Doc]

\* Nothing is there before it is made.
Begins ==
  /\ pc \in Early \union {"json"} => payload = <<>>
  /\ pc \in {"check", "read"} => fd \in File
  /\ pc \notin Early \union {"failed"} => source \in [object: Objects, text: Doc]
  /\ pc \in Early \union {"json", "svg", "parse"} => workspace = None /\ todo = {}
  /\ todo \subseteq DOMAIN payload \union touched

\* The open file is the one at the path without a link, unless its path is a link still.
Opened ==
  /\ pc = "check" => fd.object = "here" \/ path.ancestor = "linked" \/ moved
  /\ pc = "read" => fd.object = "here" \/ moved

\* Until it was edited, the exports read the document that resolveSource read, ...
Unedited ==
  ~edited =>
    /\ pc \in {"check", "read"} => Reachable /\ fd.object = Object /\ fd.text = text[Object]
    /\ pc \in {"json", "svg"} => Reachable /\ text[Object] = source.text
    /\ pc \in KeysKnown => workspace = source.text

\* ... and a file is workspace.json, one that somebody touched, or as it was rendered.
Genuine(n, content) ==
  /\ content.from = source.text
  /\ \/ n = WorkspaceJson \/ content.of = None
     \/ n \in DOMAIN Rendered(source.text) /\ content = Rendered(source.text)[n]
Renders ==
  ~edited =>
    /\ \A n \in DOMAIN payload : Genuine(n, payload[n])
    /\ pc \in Listed => \A n \in DOMAIN manifest.files : Genuine(n, manifest.files[n])

\* The manifest is about the workspace that was parsed and the document that was read.
Named ==
  /\ pc \in KeysKnown => workspace \in Doc /\ KeysAccepted(Docs[workspace].workspace)
  /\ pc \in {"svgs"} \union Listed =>
       DOMAIN payload \subseteq Primaries(ViewKeys) \union Legends(ViewKeys)
                                \union {WorkspaceJson, ManifestJson, Stray}
  /\ pc \in Listed =>
       /\ manifest = [source |-> Digest(source.text), keys |-> ViewKeys, files |-> manifest.files]
       /\ Files(manifest.files)
       /\ DOMAIN manifest.files \subseteq Primaries(ViewKeys) \union Legends(ViewKeys)
                                          \union {WorkspaceJson, Stray}
       /\ ManifestJson \notin todo

\* A file that nobody has touched since its check is what was checked.
Holds(n, content) == n \in DOMAIN checked /\ content = checked[n]
Verified ==
  /\ pc = "svgs" => \A n \in DOMAIN payload \ ({WorkspaceJson, ManifestJson} \union touched) :
                      n \in todo \/ Holds(n, payload[n])
  /\ pc \in Listed =>
       /\ \A n \in DOMAIN payload \ ({WorkspaceJson, ManifestJson} \union touched) :
            Holds(n, payload[n])
       /\ \A n \in DOMAIN manifest.files \ ({WorkspaceJson} \union touched) :
            Holds(n, manifest.files[n])

\* If nobody touched a file, the manifest lists those that are there, as they are.
Complete ==
  /\ pc \in Listed /\ touched = {} =>
       /\ DOMAIN manifest.files \union (IF pc = "build" THEN todo ELSE {})
            = DOMAIN payload \ {ManifestJson}
       /\ \A n \in DOMAIN manifest.files : payload[n] = manifest.files[n]

VerifyInv ==
  /\ TypeOK /\ Begins /\ Opened /\ Unedited /\ Renders /\ Named /\ Verified /\ Complete
  /\ SourceCanonical /\ RecheckExact

-----------------------------------------------------------------------------
(* Files.                                                                  *)

LEMMA NoFiles == Files(<<>>) /\ DOMAIN <<>> = {}
BY EmptySeq DEF Files

\* One file written, others kept.
LEMMA OneFile ==
  ASSUME NEW f, Files(f), NEW n, NEW c \in Content
  PROVE  Files(With(f, n, c)) /\ DOMAIN With(f, n, c) = DOMAIN f \union {n}
BY DEF Files, With, Over

\* Several files written, others kept.
LEMMA MoreFiles ==
  ASSUME NEW f, Files(f), NEW g, Files(g)
  PROVE  /\ Files(Over(f, g)) /\ DOMAIN Over(f, g) = DOMAIN f \union DOMAIN g
         /\ \A m \in DOMAIN f \union DOMAIN g :
              Over(f, g)[m] = IF m \in DOMAIN g THEN g[m] ELSE f[m]
BY DEF Files, Over

\* What the documents are like.
LEMMA Document ==
  ASSUME NEW d \in Doc
  PROVE  /\ Digest(d) \in Doc /\ Docs[d].primary \in Body /\ Docs[d].legend \in Body
         /\ Docs[d].legends \subseteq Keys(Docs[d].workspace)
         /\ Keys(Docs[d].workspace) \subseteq Key
         /\ \A k \in Keys(Docs[d].workspace) : k.safe => k.word \notin Dotted
BY VerifyAssumption DEF Digest

LEMMA JsonContent ==
  ASSUME NEW d \in Doc
  PROVE  Json(d) \in Content /\ Json(d).from = d /\ Json(d).of = None
BY DEF Json, Content

LEMMA RenderedFiles ==
  ASSUME NEW d \in Doc
  PROVE  /\ Files(Rendered(d))
         /\ DOMAIN Rendered(d) = Primaries(Keys(Docs[d].workspace)) \union Legends(Docs[d].legends)
         /\ \A n \in DOMAIN Rendered(d) : Rendered(d)[n].from = d
<1> DEFINE keys == Keys(Docs[d].workspace)
<1> DEFINE legends == Docs[d].legends
<1>1. ASSUME NEW k \in keys, NEW l \in BOOLEAN
      PROVE  Svg(d, k, l) \in Content /\ Svg(d, k, l).from = d
  BY Document DEF Svg, Content
<1>2. ASSUME NEW n \in Legends(legends)
      PROVE  (CHOOSE k \in legends : Name(k, TRUE) = n) \in keys
  BY Document DEF Legends
<1>3. ASSUME NEW n \in Primaries(keys)
      PROVE  (CHOOSE k \in keys : Name(k, FALSE) = n) \in keys
  BY DEF Primaries
<1>4. DOMAIN Rendered(d) = Primaries(keys) \union Legends(legends)
  BY DEF Rendered
<1>5. ASSUME NEW n \in Primaries(keys) \union Legends(legends)
      PROVE  Rendered(d)[n] \in Content /\ Rendered(d)[n].from = d
  BY <1>1, <1>2, <1>3 DEF Rendered
<1> QED
  BY <1>4, <1>5 DEF Files, Rendered

\* With keys that are accepted every view has its own primary file.
LEMMA OwnNames ==
  ASSUME NEW d \in Doc, KeysAccepted(Docs[d].workspace)
  PROVE  /\ \A k, l \in Keys(Docs[d].workspace) :
              k.word = l.word => k = l
         /\ \A k \in Keys(Docs[d].workspace) : k.tails = 0 /\ k.word \notin Dotted
<1> DEFINE w == Docs[d].workspace
<1>1. \A k \in Keys(w) : k \in Key /\ k.safe /\ k.tails = 0 /\ k.word \notin Dotted
  BY Document DEF KeysAccepted
<1>2. ASSUME NEW k \in Keys(w), NEW l \in Keys(w), k.word = l.word
      PROVE  k = l
  <2>1. PICK i \in DOMAIN w.views, j \in DOMAIN w.views : k = w.views[i].key /\ l = w.views[j].key
    BY DEF Keys
  <2>2. [k EXCEPT !.cased = FALSE] = [l EXCEPT !.cased = FALSE]
    BY <1>1, <1>2 DEF Key
  <2>3. i = j
    BY <2>1, <2>2 DEF KeysAccepted
  <2> QED
    BY <2>1, <2>3
<1> QED
  BY <1>1, <1>2

\* ... and its file is the view's diagram.
LEMMA OwnPrimary ==
  ASSUME NEW d \in Doc, KeysAccepted(Docs[d].workspace), NEW k \in Keys(Docs[d].workspace)
  PROVE  /\ Name(k, FALSE) \in DOMAIN Rendered(d)
         /\ Rendered(d)[Name(k, FALSE)].of = k /\ ~Rendered(d)[Name(k, FALSE)].legend
<1> DEFINE keys == Keys(Docs[d].workspace)
<1>1. Name(k, FALSE) \in Primaries(keys)
  BY DEF Primaries
<1>2. Name(k, FALSE) \notin Legends(Docs[d].legends)
  BY Document, OwnNames DEF Legends, Name, Key
<1>3. (CHOOSE l \in keys : Name(l, FALSE) = Name(k, FALSE)) = k
  BY OwnNames DEF Name
<1> QED
  BY <1>1, <1>2, <1>3 DEF Rendered, Svg

-----------------------------------------------------------------------------
LEMMA InitInv == Init => VerifyInv
<1> SUFFICES ASSUME Init PROVE VerifyInv
  OBVIOUS
<1>1. TypeOK
  <2>1. 0 \in 0..MaxAggregateBytes /\ Changes \in 0..Changes
    BY VerifyAssumption
  <2>2. Files(payload) /\ Files(checked)
    BY NoFiles DEF Init
  <2> QED
    BY <2>1, <2>2 DEF Init, TypeOK, Labels, Codes
<1> QED
  BY <1>1, NoFiles DEF Init, VerifyInv, Begins, Early, Listed, KeysKnown, Opened, Unedited,
     Renders, Named, Verified, Complete, SourceCanonical, RecheckExact

-----------------------------------------------------------------------------
(* resolveSource.                                                          *)

\* Before the exports there is nothing to say of files.
LEMMA EarlyInv ==
  ASSUME VerifyInv, VerifyAncestors \/ OpenModel \/ CheckModel \/ ReadModel
  PROVE  VerifyInv'
<1> USE DEF VerifyInv
<1>1. /\ pc \in Early /\ UNCHANGED <<path, text, payload, verifier, history>>
      /\ payload = <<>> /\ workspace = None /\ todo = {}
      /\ pc' \in Labels /\ failure' \in Codes /\ (pc' = "failed" <=> failure' # "none")
      /\ pc' \in Early \union {"json", "failed"}
  BY DEF VerifyAncestors, OpenModel, CheckModel, ReadModel, Require, Goto, Fail, Early, Begins,
         TypeOK, Labels, Codes, model
<1>2. UNCHANGED <<todo, workspace, checked, bytes, manifest, changes, moved, edited, touched>>
  BY <1>1 DEF verifier, history
<1>3. TypeOK' /\ Begins'
  <2>1. CASE VerifyAncestors
    BY <1>1, <1>2, <2>1 DEF TypeOK, VerifyAncestors, Require, Goto, Fail, Begins, Early, model
  <2>2. CASE OpenModel
    BY <1>1, <1>2, <2>2 DEF TypeOK, OpenModel, Require, Goto, Fail, Begins, Early, File, Reachable,
       Object, Objects, Texts
  <2>3. CASE CheckModel
    BY <1>1, <1>2, <2>3 DEF TypeOK, CheckModel, Require, Goto, Fail, Begins, Early, model
  <2>4. CASE ReadModel
    BY <1>1, <1>2, <2>4 DEF TypeOK, ReadModel, Require, Goto, Fail, Begins, Early, File
  <2> QED
    BY <2>1, <2>2, <2>3, <2>4
<1>4. Opened' /\ SourceCanonical'
  BY <1>1, <1>2 DEF Opened, SourceCanonical, VerifyAncestors, OpenModel, CheckModel, ReadModel,
     Require, Goto, Fail, Early, Object, Reachable, Canonically, model
<1>5. Unedited'
  BY <1>1, <1>2 DEF Unedited, VerifyAncestors, OpenModel, CheckModel, ReadModel,
     Require, Goto, Fail, Early, Object, Reachable, KeysKnown, Listed, model
<1>6. (Renders /\ Named /\ Verified /\ Complete /\ RecheckExact)'
  BY <1>1, <1>2, NoFiles DEF Renders, Named, Verified, Complete, RecheckExact, Early, Listed,
     KeysKnown
<1> QED
  BY <1>3, <1>4, <1>5, <1>6

-----------------------------------------------------------------------------
(* The exports and verifyOutput.                                           *)

\* Where a step may lead, of those that the verifier takes itself.
LEMMA Leads ==
  ASSUME TypeOK, NEW l \in Labels \ {"failed"}, NEW c \in Codes \ {"none"}, pc # "failed",
         NEW condition, Require(condition, c, l)
  PROVE  /\ pc' \in {l, "failed"} /\ (pc' = l <=> condition)
         /\ pc' \in Labels /\ failure' \in Codes /\ (pc' = "failed" <=> failure' # "none")
BY DEF TypeOK, Require, Goto, Fail, Labels

LEMMA ExportJsonInv == VerifyInv /\ ExportJson => VerifyInv'
<1> SUFFICES ASSUME VerifyInv, ExportJson PROVE VerifyInv'
  OBVIOUS
<1> USE DEF VerifyInv
<1>1. /\ pc = "json" /\ payload = <<>> /\ pc' \in {"svg", "failed"}
      /\ pc' \in Labels /\ failure' \in Codes /\ (pc' = "failed" <=> failure' # "none")
      /\ pc' = "svg" => Reachable
      /\ UNCHANGED <<path, text, fd, source, workspace, todo, checked, bytes, manifest>>
      /\ UNCHANGED <<changes, moved, edited, touched>>
  BY Leads DEF ExportJson, Begins, Early, Labels, Codes, model, verifier, history
<1>2. CASE ~Reachable
  <2>1. payload' = payload /\ pc' = "failed"
    BY <1>1, <1>2 DEF ExportJson
  <2> QED
    BY <1>1, <2>1, NoFiles DEF TypeOK, Begins, Early, Opened, Unedited, Renders, Named, Verified,
       Complete, SourceCanonical, RecheckExact, KeysKnown, Listed
<1>3. CASE Reachable
  <2> DEFINE c == Json(text[Object])
  <2>1. text[Object] \in Doc
    BY DEF TypeOK, Texts, Object, Objects
  <2>2. payload' = With(payload, WorkspaceJson, c) /\ Files(payload) /\ DOMAIN payload = {}
    BY <1>1, <1>3, NoFiles DEF ExportJson
  <2>3. c \in Content /\ c.from = text[Object]
    BY <2>1, JsonContent
  <2> HIDE DEF c
  <2>4. Files(payload') /\ DOMAIN payload' = {WorkspaceJson} /\ payload'[WorkspaceJson] = c
    <3>1. Files(payload')
      BY <2>2, <2>3, OneFile
    <3> QED
      BY <2>2, <3>1 DEF With, Over
  <2>5. TypeOK'
    BY <1>1, <2>4, NoFiles DEF TypeOK, Begins, Early
  <2>6. Renders'
    BY <1>1, <2>3, <2>4 DEF Renders, Genuine, Unedited, Listed
  <2> QED
    BY <1>1, <2>4, <2>5, <2>6 DEF Begins, Early, Opened, Unedited, Named, Verified,
       Complete, SourceCanonical, RecheckExact, KeysKnown, Listed, Reachable, Object
<1> QED
  BY <1>2, <1>3

LEMMA ExportSvgInv == VerifyInv /\ ExportSvg => VerifyInv'
<1> SUFFICES ASSUME VerifyInv, ExportSvg PROVE VerifyInv'
  OBVIOUS
<1> USE DEF VerifyInv
<1>1. /\ pc = "svg" /\ pc' \in {"parse", "failed"}
      /\ pc' \in Labels /\ failure' \in Codes /\ (pc' = "failed" <=> failure' # "none")
      /\ pc' = "parse" => Reachable
      /\ UNCHANGED <<path, text, fd, source, workspace, todo, checked, bytes, manifest>>
      /\ UNCHANGED <<changes, moved, edited, touched>>
  BY Leads DEF ExportSvg, Labels, Codes, model, verifier, history
<1>2. CASE ~Reachable
  <2>1. payload' = payload /\ pc' = "failed"
    BY <1>1, <1>2 DEF ExportSvg
  <2> QED
    BY <1>1, <2>1 DEF TypeOK, Begins, Early, Opened, Unedited, Renders, Genuine, Named, Verified,
       Complete, SourceCanonical, RecheckExact, KeysKnown, Listed
<1>3. CASE Reachable
  <2> DEFINE d == text[Object]
  <2>1. d \in Doc
    BY DEF TypeOK, Texts, Object, Objects
  <2>2. payload' = Over(payload, Rendered(d))
    BY <1>1, <1>3 DEF ExportSvg
  <2>3. d = source.text \/ edited
    BY <1>1 DEF Unedited
  <2> HIDE DEF d
  <2>4. Files(payload) /\ Files(Rendered(d))
    BY <2>1, RenderedFiles DEF TypeOK
  <2>5. /\ Files(payload') /\ DOMAIN payload' = DOMAIN payload \union DOMAIN Rendered(d)
        /\ \A m \in DOMAIN payload' :
             payload'[m] = IF m \in DOMAIN Rendered(d) THEN Rendered(d)[m] ELSE payload[m]
    BY <2>2, <2>4, MoreFiles
  <2>6. TypeOK'
    BY <1>1, <2>5 DEF TypeOK, Begins, Early
  <2>7. Renders'
    <3> SUFFICES ASSUME ~edited, NEW n \in DOMAIN payload' PROVE Genuine(n, payload'[n])
      BY <1>1 DEF Renders, Genuine, Listed
    <3>1. CASE n \in DOMAIN Rendered(d)
      BY <2>1, <2>3, <2>5, <3>1, RenderedFiles DEF Genuine
    <3>2. CASE n \notin DOMAIN Rendered(d)
      BY <2>5, <3>2 DEF Renders
    <3> QED
      BY <3>1, <3>2
  <2> QED
    BY <1>1, <2>5, <2>6, <2>7 DEF Begins, Early, Opened, Unedited, Named, Verified,
       Complete, SourceCanonical, RecheckExact, KeysKnown, Listed, Reachable, Object
<1> QED
  BY <1>2, <1>3

LEMMA ParseInv == VerifyInv /\ Parse => VerifyInv'
<1> SUFFICES ASSUME VerifyInv, Parse PROVE VerifyInv'
  OBVIOUS
<1> USE DEF VerifyInv
<1> DEFINE d == payload[WorkspaceJson].from
<1>1. /\ pc = "parse" /\ pc' \in {"map", "failed"}
      /\ pc' \in Labels /\ failure' \in Codes /\ (pc' = "failed" <=> failure' # "none")
      /\ pc' = "map" => /\ WorkspaceJson \in DOMAIN payload
                        /\ KeysAccepted(Docs[d].workspace)
                        /\ workspace' = d
      /\ pc' = "failed" => workspace' = None
      /\ UNCHANGED <<path, text, fd, source, payload, todo, checked, bytes, manifest>>
      /\ UNCHANGED <<changes, moved, edited, touched>>
  BY DEF Parse, TypeOK, Require, Goto, Fail, Present, Labels, Codes, model, history
<1>2. WorkspaceJson \in DOMAIN payload => d \in Doc /\ (d = source.text \/ edited)
  BY DEF TypeOK, Files, Content, Renders, Genuine
<1> HIDE DEF d
<1>3. todo = {}
  BY <1>1 DEF Begins
<1>4. TypeOK'
  BY <1>1, <1>2, <1>3 DEF TypeOK
<1> QED
  BY <1>1, <1>2, <1>3, <1>4 DEF Begins, Early, Opened, Unedited, Renders, Genuine, Named, Verified,
     Complete, SourceCanonical, RecheckExact, KeysKnown, Listed

LEMMA MapOutputInv == VerifyInv /\ MapOutput => VerifyInv'
<1> SUFFICES ASSUME VerifyInv, MapOutput PROVE VerifyInv'
  OBVIOUS
<1> USE DEF VerifyInv
<1>1. /\ pc = "map" /\ pc' \in {"svgs", "failed"}
      /\ pc' \in Labels /\ failure' \in Codes /\ (pc' = "failed" <=> failure' # "none")
      /\ pc' = "svgs" => /\ DOMAIN payload \ {WorkspaceJson, ManifestJson}
                              \subseteq Primaries(ViewKeys) \union Legends(ViewKeys)
                         /\ todo' = (Primaries(ViewKeys) \union Legends(ViewKeys)) \intersect DOMAIN payload
      /\ pc' = "failed" => todo' = {}
      /\ UNCHANGED <<path, text, fd, source, payload, workspace, checked, bytes, manifest>>
      /\ UNCHANGED <<changes, moved, edited, touched>>
  BY Leads DEF MapOutput, Maps, SvgPaths, Labels, Codes, model, history
<1>2. TypeOK'
  BY <1>1 DEF TypeOK
<1>3. ViewKeys' = ViewKeys
  BY <1>1 DEF ViewKeys
<1> QED
  BY <1>1, <1>2, <1>3 DEF Begins, Early, Opened, Unedited, Renders, Genuine, Named, Verified, Holds,
     Complete, SourceCanonical, RecheckExact, KeysKnown, Listed

LEMMA VerifySvgInv ==
  ASSUME VerifyInv, NEW n, VerifySvg(n)
  PROVE  VerifyInv'
<1> USE DEF VerifyInv
<1>1. /\ pc = "svgs" /\ pc' \in {"svgs", "failed"} /\ n \in todo
      /\ pc' \in Labels /\ failure' \in Codes /\ (pc' = "failed" <=> failure' # "none")
      /\ pc' = "svgs" <=> SvgAccepted(n)
      /\ todo' = todo \ {n} /\ touched' = touched \ {n}
      /\ UNCHANGED <<path, text, fd, source, payload, workspace, manifest, changes, moved, edited>>
  BY Leads DEF VerifySvg, Labels, Codes, model
<1>2. ViewKeys' = ViewKeys
  BY <1>1 DEF ViewKeys
<1>3. CASE ~SvgAccepted(n)
  <2>1. pc' = "failed" /\ UNCHANGED <<checked, bytes>>
    BY <1>1, <1>3 DEF VerifySvg
  <2>2. TypeOK'
    BY <1>1, <2>1 DEF TypeOK, Begins
  <2> QED
    BY <1>1, <1>2, <2>1, <2>2 DEF Begins, Early, Opened, Unedited, Renders, Genuine, Named,
       Verified, Complete, SourceCanonical, RecheckExact, KeysKnown, Listed
<1>4. CASE SvgAccepted(n)
  <2>1. /\ pc' = "svgs" /\ n \in DOMAIN payload
        /\ checked' = With(checked, n, payload[n]) /\ bytes' = bytes + SizeOf(n)
        /\ SizeOf(n) \in 1..MaxSvgBytes /\ bytes + SizeOf(n) \leq MaxAggregateBytes
    BY <1>1, <1>4 DEF VerifySvg, SvgAccepted, Present
  <2>2. bytes' \in 0..MaxAggregateBytes
    BY <2>1, VerifyAssumption DEF TypeOK
  <2>3. payload[n] \in Content
    BY <2>1 DEF TypeOK, Files
  <2>4. Files(checked')
    BY <2>1, <2>3, OneFile DEF TypeOK
  <2>5. TypeOK'
    BY <1>1, <2>2, <2>4 DEF TypeOK, Begins
  <2>6. ASSUME NEW m \in DOMAIN payload \ ({WorkspaceJson, ManifestJson} \union touched'), m \notin todo'
        PROVE  Holds(m, payload[m])'
    <3>1. CASE m = n
      BY <1>1, <2>1, <3>1 DEF Holds, With, Over
    <3>2. CASE m # n
      <4>1. m \in DOMAIN checked /\ payload[m] = checked[m]
        BY <1>1, <2>6, <3>2 DEF Verified, Holds
      <4> QED
        BY <1>1, <2>1, <3>2, <4>1 DEF Holds, With, Over
    <3> QED
      BY <3>1, <3>2
  <2>7. Verified'
    BY <1>1, <2>1, <2>6 DEF Verified, Holds, Listed
  <2> QED
    BY <1>1, <1>2, <2>1, <2>5, <2>7 DEF Begins, Early, Opened, Unedited, Renders, Genuine, Named,
       Complete, SourceCanonical, RecheckExact, KeysKnown, Listed
<1> QED
  BY <1>3, <1>4

LEMMA ListFilesInv == VerifyInv /\ ListFiles => VerifyInv'
<1> SUFFICES ASSUME VerifyInv, ListFiles PROVE VerifyInv'
  OBVIOUS
<1> USE DEF VerifyInv
<1>1. /\ pc = "svgs" /\ pc' = "build" /\ failure' = failure /\ todo = {}
      /\ todo' = DOMAIN payload \ {ManifestJson}
      /\ manifest' = [source |-> Digest(source.text), keys |-> ViewKeys, files |-> <<>>]
      /\ UNCHANGED <<path, text, fd, source, payload, workspace, checked, bytes>>
      /\ UNCHANGED <<changes, moved, edited, touched>>
  BY DEF ListFiles, Goto, ManifestSource, model, history
<1>2. ViewKeys' = ViewKeys
  BY <1>1 DEF ViewKeys
<1>3. source.text \in Doc
  BY <1>1 DEF Begins, Early
<1>4. Files(manifest'.files) /\ DOMAIN manifest'.files = {} /\ manifest'.source \in Doc
  BY <1>1, <1>3, NoFiles, Document
<1>5. TypeOK'
  BY <1>1, <1>4 DEF TypeOK, Labels
<1>6. Verified'
  BY <1>1, <1>4 DEF Verified, Holds, Listed
<1>7. Complete' /\ Named'
  BY <1>1, <1>2, <1>4 DEF Complete, Named, Listed, KeysKnown
<1> QED
  BY <1>1, <1>4, <1>5, <1>6, <1>7 DEF Begins, Early, Opened, Unedited, Renders, Genuine,
     SourceCanonical, RecheckExact, KeysKnown, Listed

LEMMA BuildFileInv ==
  ASSUME VerifyInv, NEW n, BuildFile(n)
  PROVE  VerifyInv'
<1> USE DEF VerifyInv
<1> DEFINE files == With(manifest.files, n, payload[n])
<1>1. /\ pc = "build" /\ pc' \in {"build", "failed"} /\ n \in todo
      /\ pc' \in Labels /\ failure' \in Codes /\ (pc' = "failed" <=> failure' # "none")
      /\ pc' = "build" => n \in DOMAIN payload
      /\ todo' = todo \ {n}
      /\ UNCHANGED <<path, text, fd, source, payload, workspace, checked, bytes>>
      /\ UNCHANGED <<changes, moved, edited, touched>>
  BY Leads DEF BuildFile, Labels, Codes, Present, model, history
<1>2. ViewKeys' = ViewKeys
  BY <1>1 DEF ViewKeys
<1>3. /\ manifest = [source |-> Digest(source.text), keys |-> ViewKeys, files |-> manifest.files]
      /\ Digest(source.text) \in Doc
  <2>1. source.text \in Doc
    BY <1>1 DEF Begins, Early
  <2> QED
    BY <1>1, <2>1, Document DEF Named, Listed
<1>4. CASE n \notin DOMAIN payload
  <2>1. pc' = "failed" /\ manifest' = manifest
    BY <1>1, <1>4 DEF BuildFile, Present
  <2>2. TypeOK'
    BY <1>1, <2>1 DEF TypeOK
  <2> QED
    BY <1>1, <1>2, <2>1, <2>2 DEF Begins, Early, Opened, Unedited, Renders, Genuine, Named,
       Verified, Complete, SourceCanonical, RecheckExact, KeysKnown, Listed
<1>5. CASE n \in DOMAIN payload
  <2>1. manifest' = [manifest EXCEPT !.files = files]
    BY <1>1, <1>5 DEF BuildFile, Present
  <2>2. manifest' = [source |-> Digest(source.text), keys |-> ViewKeys, files |-> files]
    BY <1>3, <2>1
  <2>3. payload[n] \in Content
    BY <1>5 DEF TypeOK, Files
  <2>4. Files(manifest.files)
    BY <1>1 DEF Named, Listed
  <2>5. /\ Files(files) /\ DOMAIN files = DOMAIN manifest.files \union {n}
    BY <2>3, <2>4, OneFile
  <2>6. /\ files[n] = payload[n]
        /\ \A m \in DOMAIN manifest.files \ {n} : files[m] = manifest.files[m]
    BY DEF With, Over
  <2> HIDE DEF files
  <2>7. manifest'.files = files /\ manifest'.source = Digest(source.text) /\ manifest'.keys = ViewKeys
    BY <2>2
  <2>8. TypeOK'
    BY <1>1, <1>3, <2>5, <2>7 DEF TypeOK
  <2>9. Renders'
    <3> SUFFICES ASSUME ~edited, NEW m \in DOMAIN files PROVE Genuine(m, files[m])
      BY <1>1, <2>7 DEF Renders, Genuine
    <3>1. CASE m = n
      BY <1>5, <2>6, <3>1 DEF Renders
    <3>2. CASE m # n
      BY <1>1, <2>5, <2>6, <3>2 DEF Renders, Listed
    <3> QED
      BY <3>1, <3>2
  <2>10. Verified'
    <3>1. ASSUME NEW m \in DOMAIN files \ ({WorkspaceJson} \union touched)
          PROVE  Holds(m, files[m])
      <4>1. CASE m = n
        <5>1. n # ManifestJson
          BY <1>1 DEF Named, Listed
        <5> QED
          BY <1>1, <1>5, <2>6, <3>1, <4>1, <5>1 DEF Verified, Listed
      <4>2. CASE m # n
        BY <1>1, <2>5, <2>6, <3>1, <4>2 DEF Verified, Listed
      <4> QED
        BY <4>1, <4>2
    <3> QED
      BY <1>1, <2>7, <3>1 DEF Verified, Holds, Listed
  <2>11. Named'
    BY <1>1, <1>2, <1>5, <2>2, <2>5, <2>7 DEF Named, Listed, KeysKnown
  <2>12. Complete'
    BY <1>1, <1>5, <2>5, <2>6, <2>7 DEF Complete, Listed
  <2> QED
    BY <1>1, <2>8, <2>9, <2>10, <2>11, <2>12 DEF Begins, Early, Opened, Unedited,
       SourceCanonical, RecheckExact, KeysKnown, Listed
<1> QED
  BY <1>4, <1>5

LEMMA WriteManifestInv == VerifyInv /\ WriteManifest => VerifyInv'
<1> SUFFICES ASSUME VerifyInv, WriteManifest PROVE VerifyInv'
  OBVIOUS
<1> USE DEF VerifyInv
<1> DEFINE c == Json(source.text)
<1>1. /\ pc = "build" /\ pc' = "published" /\ failure' = failure /\ todo = {}
      /\ payload' = With(payload, ManifestJson, c)
      /\ UNCHANGED <<path, text, fd, source, workspace, todo, checked, bytes, manifest>>
      /\ UNCHANGED <<changes, moved, edited, touched>>
  BY DEF WriteManifest, Goto, model, verifier, history
<1>2. ViewKeys' = ViewKeys
  BY <1>1 DEF ViewKeys
<1>3. c \in Content /\ c.from = source.text /\ c.of = None
  BY <1>1, JsonContent DEF Begins, Early
<1>4. Files(payload') /\ DOMAIN payload' = DOMAIN payload \union {ManifestJson}
  BY <1>1, <1>3, OneFile DEF TypeOK
<1>5. /\ payload'[ManifestJson] = c
      /\ \A m \in DOMAIN payload \ {ManifestJson} : payload'[m] = payload[m]
  BY <1>1 DEF With, Over
<1> HIDE DEF c
<1>6. TypeOK'
  BY <1>1, <1>4 DEF TypeOK, Labels
<1>7. Renders'
  BY <1>1, <1>3, <1>4, <1>5 DEF Renders, Genuine, Listed
<1>8. Verified'
  BY <1>1, <1>4, <1>5 DEF Verified, Holds, Listed
<1>9. ManifestJson \notin DOMAIN manifest.files
  BY <1>1, OwnNames DEF Named, Listed, KeysKnown, ViewKeys, Primaries, Legends, Name, ManifestJson,
     WorkspaceJson, Stray, Dotted
<1>10. Complete'
  BY <1>1, <1>4, <1>5, <1>9 DEF Complete, Listed
<1> QED
  BY <1>1, <1>2, <1>4, <1>6, <1>7, <1>8, <1>10 DEF Begins, Early, Opened, Unedited, Named,
     SourceCanonical, RecheckExact, KeysKnown, Listed

-----------------------------------------------------------------------------
(* The recheck, and other people.                                          *)

LEMMA RecheckInv == VerifyInv /\ Recheck => VerifyInv'
<1> SUFFICES ASSUME VerifyInv, Recheck PROVE VerifyInv'
  OBVIOUS
<1> USE DEF VerifyInv
<1>1. /\ pc = "published" /\ pc' \in {"intact", "differs"} /\ failure' = failure
      /\ pc' = "intact" => SameFiles /\ \A n \in DOMAIN manifest.files : payload[n] = manifest.files[n]
      /\ pc' = "differs" => \/ Volatile
                            \/ ~(SameFiles /\ \A n \in DOMAIN manifest.files : payload[n] = manifest.files[n])
      /\ UNCHANGED <<path, text, fd, source, payload, workspace, todo, checked, bytes, manifest>>
      /\ UNCHANGED <<changes, moved, edited, touched>>
  BY DEF Recheck, Goto, model, verifier, history
<1>2. ViewKeys' = ViewKeys /\ Volatile' = Volatile
  BY <1>1 DEF ViewKeys, Volatile
<1>3. TypeOK'
  BY <1>1 DEF TypeOK, Labels
<1>4. RecheckExact'
  <2>1. Files(manifest.files)
    BY <1>1 DEF Named, Listed
  <2>2. ASSUME pc' = "intact"
        PROVE  manifest.files = [n \in DOMAIN payload \ {ManifestJson} |-> payload[n]]
    BY <1>1, <2>1, <2>2 DEF SameFiles, Files
  <2>3. ASSUME pc' = "differs", touched = {}
        PROVE  Volatile
    BY <1>1, <2>3 DEF SameFiles, Complete, Listed
  <2> QED
    BY <1>1, <1>2, <2>2, <2>3 DEF RecheckExact
<1> QED
  BY <1>1, <1>2, <1>3, <1>4 DEF Begins, Early, Opened, Unedited, Renders, Genuine, Named, Verified,
     Holds, Complete, SourceCanonical, KeysKnown, Listed

\* The author edits or moves the model.
LEMMA ModelInv ==
  ASSUME VerifyInv, Edit \/ Move
  PROVE  VerifyInv'
<1> USE DEF VerifyInv
<1>1. /\ Running /\ changes' \in 0..Changes
      /\ UNCHANGED <<source, payload, pc, failure, workspace, todo, checked, bytes, manifest>>
      /\ touched' = touched
  <2>1. Running /\ changes > 0 /\ changes' = changes - 1
    BY DEF Edit, Move, Change
  <2>2. changes' \in 0..Changes
    BY <2>1, VerifyAssumption DEF TypeOK
  <2> QED
    BY <2>1, <2>2 DEF Edit, Move, verifier
<1>2. ViewKeys' = ViewKeys /\ Volatile' = Volatile
  BY <1>1 DEF ViewKeys, Volatile
<1>3. (edited => edited') /\ (moved => moved')
  <2>1. CASE Edit
    BY <2>1 DEF Edit
  <2>2. CASE Move
    BY <2>2 DEF Move
  <2> QED
    BY <2>1, <2>2
<1>4. (Renders /\ Named /\ Verified /\ Complete /\ SourceCanonical /\ RecheckExact)'
  BY <1>1, <1>2, <1>3 DEF Renders, Genuine, Named, Verified, Holds, Complete, SourceCanonical,
     RecheckExact, KeysKnown, Listed
<1>5. CASE Move
  <2>1. /\ UNCHANGED <<text, fd>> /\ moved' = (moved \/ pc = "check")
        /\ edited' = (edited \/ pc \in {"json", "svg"} \/ pc \in {"check", "read"})
        /\ path' \in [ancestor: {"plain", "linked", "absent"}, leaf: {"file", "link", "fifo", "absent"}]
    BY <1>5 DEF Move, Reading
  <2>2. TypeOK' /\ Begins'
    BY <1>1, <2>1 DEF TypeOK, Begins
  <2> QED
    BY <1>1, <1>4, <2>1, <2>2 DEF Opened, Unedited, KeysKnown, Listed
<1>6. CASE Edit
  <2>1. PICK o \in Objects, d \in Doc, inPlace \in BOOLEAN :
          /\ text' = [text EXCEPT ![o] = d] /\ text' \in Texts
          /\ fd' = IF inPlace /\ fd # None /\ fd.object = o THEN [fd EXCEPT !.text = d] ELSE fd
          /\ edited' = (edited \/ pc \in {"json", "svg"} \/ (pc \in {"check", "read"} /\ ~inPlace))
    BY <1>6 DEF Edit, Reading
  <2>2. path' = path /\ moved' = moved
    BY <1>6 DEF Edit
  <2>3. fd \in File => fd' \in File /\ fd'.object = fd.object
    BY <2>1 DEF File
  <2>4. TypeOK' /\ Begins'
    <3>1. fd' = None \/ fd' \in File
      BY <2>1, <2>3 DEF TypeOK, File
    <3> QED
      BY <1>1, <2>1, <2>2, <2>3, <3>1 DEF TypeOK, Begins, File
  <2>5. Opened'
    BY <1>1, <2>2, <2>3 DEF Opened, Begins
  <2>6. Unedited'
    <3> SUFFICES ASSUME ~edited' PROVE Unedited'
      BY DEF Unedited
    <3>1. pc \notin {"json", "svg"} /\ ~edited
      BY <2>1
    <3>2. CASE pc \in {"check", "read"}
      <4>1. inPlace /\ fd \in File /\ fd.object = Object /\ fd.text = text[Object] /\ Reachable
        BY <2>1, <3>1, <3>2 DEF Begins, Unedited
      <4>2. Object' = Object /\ Reachable'
        BY <2>2, <4>1 DEF Object, Reachable
      <4>3. Object \in Objects /\ text \in [Objects -> Doc]
        BY DEF Object, Objects, TypeOK, Texts
      <4>4. CASE o = Object
        <5>1. text'[Object] = d
          BY <2>1, <4>3, <4>4
        <5>2. fd'.text = d
          <6>1. fd # None
            BY <4>1, VerifyAssumption DEF File
          <6> QED
            BY <2>1, <4>1, <4>4, <6>1 DEF File
        <5> QED
          BY <1>1, <2>3, <3>2, <4>1, <4>2, <5>1, <5>2 DEF Unedited, KeysKnown, Listed
      <4>5. CASE o # Object
        <5>1. text'[Object] = text[Object] /\ fd' = fd
          BY <2>1, <4>1, <4>3, <4>5
        <5> QED
          BY <1>1, <2>3, <3>2, <4>1, <4>2, <5>1 DEF Unedited, KeysKnown, Listed
      <4> QED
        BY <4>4, <4>5
    <3>3. CASE pc \notin {"check", "read"}
      BY <1>1, <3>1, <3>3 DEF Unedited
    <3> QED
      BY <3>2, <3>3
  <2> QED
    BY <1>4, <2>4, <2>5, <2>6
<1> QED
  BY <1>5, <1>6

\* Somebody writes or removes a file of the output.
LEMMA TouchInv == VerifyInv /\ Touch => VerifyInv'
<1> SUFFICES ASSUME VerifyInv, Touch PROVE VerifyInv'
  OBVIOUS
<1> USE DEF VerifyInv
<1>1. /\ pc \notin {"intact", "differs", "failed"} /\ payload # <<>>
      /\ UNCHANGED <<path, text, fd, source, pc, failure, workspace, todo, checked, bytes, manifest>>
      /\ UNCHANGED <<moved, edited>>
  BY DEF Touch, Change, Running, model, verifier
<1>2. changes' \in 0..Changes
  BY VerifyAssumption DEF Touch, Change, TypeOK
<1>3. ViewKeys' = ViewKeys
  BY <1>1 DEF ViewKeys
<1>4. PICK n \in (DOMAIN payload \ {ManifestJson}) \union {Stray} :
        /\ touched' = touched \union {n}
        /\ \/ \E b \in Body : n # WorkspaceJson
                /\ payload' = With(payload, n, [from |-> source.text, of |-> None,
                                                legend |-> FALSE, body |-> b])
           \/ n \in DOMAIN payload /\ payload' = [m \in DOMAIN payload \ {n} |-> payload[m]]
  BY DEF Touch, Present
<1>5. pc \notin Early \union {"json"} /\ source.text \in Doc
  BY <1>1 DEF Begins, Early
<1>6. /\ Files(payload')
      /\ DOMAIN payload' \subseteq DOMAIN payload \union {n}
      /\ DOMAIN payload \subseteq DOMAIN payload' \union {n}
      /\ \A m \in DOMAIN payload' \ {n} : payload'[m] = payload[m]
      /\ n \in DOMAIN payload' => payload'[n].from = source.text /\ payload'[n].of = None
  <2>1. ASSUME NEW b \in Body, payload' = With(payload, n, [from |-> source.text, of |-> None,
                                                            legend |-> FALSE, body |-> b])
        PROVE  <1>6!:
    <3> DEFINE c == [from |-> source.text, of |-> None, legend |-> FALSE, body |-> b]
    <3>1. c \in Content /\ c.from = source.text /\ c.of = None
      BY <1>5 DEF Content
    <3>2. payload' = With(payload, n, c)
      BY <2>1
    <3> HIDE DEF c
    <3>3. Files(payload') /\ DOMAIN payload' = DOMAIN payload \union {n}
      BY <3>1, <3>2, OneFile DEF TypeOK
    <3>4. payload'[n] = c /\ \A m \in DOMAIN payload \ {n} : payload'[m] = payload[m]
      BY <3>2 DEF With, Over
    <3> QED
      BY <3>1, <3>3, <3>4
  <2>2. ASSUME payload' = [m \in DOMAIN payload \ {n} |-> payload[m]]
        PROVE  <1>6!:
    BY <2>2 DEF Files, TypeOK
  <2> QED
    BY <1>4, <2>1, <2>2
<1>7. n # ManifestJson
  <2>1. Stray[1] # ManifestJson[1]
    BY DEF Stray, ManifestJson
  <2> QED
    BY <1>4, <2>1
<1>8. TypeOK' /\ Begins'
  <2>1. todo \subseteq DOMAIN payload' \union touched'
    BY <1>4, <1>6 DEF Begins
  <2>2. Begins'
    BY <1>1, <1>5, <2>1 DEF Begins
  <2>3. touched \subseteq touched'
    BY <1>4
  <2> QED
    BY <1>1, <1>2, <1>6, <2>1, <2>2, <2>3 DEF TypeOK
<1>9. Renders'
  <2> SUFFICES ASSUME ~edited, NEW m \in DOMAIN payload' PROVE Genuine(m, payload'[m])
    BY <1>1 DEF Renders, Genuine
  <2>1. CASE m = n
    BY <1>6, <2>1 DEF Genuine
  <2>2. CASE m # n
    BY <1>6, <2>2 DEF Renders
  <2> QED
    BY <2>1, <2>2
<1>10. Named'
  <2>1. ASSUME pc \in {"svgs"} \union Listed
        PROVE  DOMAIN payload' \subseteq Primaries(ViewKeys) \union Legends(ViewKeys)
                                          \union {WorkspaceJson, ManifestJson, Stray}
    BY <1>4, <1>6, <2>1 DEF Named
  <2> QED
    BY <1>1, <1>3, <2>1 DEF Named
<1>11. Verified'
  <2>1. ASSUME NEW m \in DOMAIN payload', m \notin touched'
        PROVE  m \in DOMAIN payload /\ m \notin touched /\ payload'[m] = payload[m]
    BY <1>4, <1>6, <2>1
  <2> QED
    BY <1>1, <1>4, <2>1 DEF Verified, Holds
<1>12. Complete' /\ RecheckExact'
  BY <1>1, <1>4 DEF Complete, RecheckExact
<1>13. (Opened /\ Unedited /\ SourceCanonical)'
  BY <1>1 DEF Opened, Unedited, SourceCanonical, Reachable, Object
<1> QED
  BY <1>8, <1>9, <1>10, <1>11, <1>12, <1>13

-----------------------------------------------------------------------------
(* The theorems.                                                           *)

LEMMA StepInv == VerifyInv /\ [Next]_vars => VerifyInv'
<1> SUFFICES ASSUME VerifyInv, [Next]_vars PROVE VerifyInv'
  OBVIOUS
<1>1. CASE VerifyAncestors \/ OpenModel \/ CheckModel \/ ReadModel
  BY <1>1, EarlyInv
<1>2. CASE ExportJson \/ ExportSvg
  BY <1>2, ExportJsonInv, ExportSvgInv
<1>3. CASE Parse \/ MapOutput \/ ListFiles \/ WriteManifest \/ Recheck
  BY <1>3, ParseInv, MapOutputInv, ListFilesInv, WriteManifestInv, RecheckInv
<1>4. CASE \E n \in todo : VerifySvg(n) \/ BuildFile(n)
  BY <1>4, VerifySvgInv, BuildFileInv
<1>5. CASE Edit \/ Move \/ Touch
  BY <1>5, ModelInv, TouchInv
<1>6. CASE UNCHANGED vars
  <2>1. /\ UNCHANGED <<path, text, fd, source, payload, pc, failure, workspace, todo, checked>>
        /\ UNCHANGED <<bytes, manifest, changes, moved, edited, touched>>
    BY <1>6 DEF vars, model, verifier, history
  <2>2. ViewKeys' = ViewKeys /\ Volatile' = Volatile
    BY <2>1 DEF ViewKeys, Volatile
  <2>3. TypeOK'
    BY <2>1 DEF VerifyInv, TypeOK
  <2>4. (Begins /\ Opened /\ Unedited /\ SourceCanonical)'
    BY <2>1 DEF VerifyInv, Begins, Opened, Unedited, SourceCanonical, Reachable, Object
  <2>5. (Renders /\ Named /\ Verified /\ Complete /\ RecheckExact)'
    BY <2>1, <2>2 DEF VerifyInv, Renders, Genuine, Named, Verified, Holds, Complete, RecheckExact
  <2> QED
    BY <2>3, <2>4, <2>5 DEF VerifyInv
<1> QED
  BY <1>1, <1>2, <1>3, <1>4, <1>5, <1>6 DEF Next

\* Every reachable state of a render satisfies the invariant.
THEOREM Invariance == Spec => []VerifyInv
<1>1. Init => VerifyInv
  BY InitInv
<1>2. VerifyInv /\ [Next]_vars => VerifyInv'
  BY StepInv
<1> QED
  BY <1>1, <1>2, PTL DEF Spec

\* structurizr-verify.ts: a render's variables keep their types, its aggregate bound included.
THEOREM TypeCorrect == Spec => []TypeOK
<1>1. VerifyInv => TypeOK
  BY DEF VerifyInv
<1> QED
  BY <1>1, Invariance, PTL

\* resolveSource: what was read is the file at the canonical path, unless the path changed
\* between its open and its realpath.
THEOREM CanonicalRead == Spec => []SourceCanonical
<1>1. VerifyInv => SourceCanonical
  BY DEF VerifyInv
<1> QED
  BY <1>1, Invariance, PTL

\* buildManifest: what the manifest lists is what verifySvgFile accepted, unless it was
\* touched after its check.
THEOREM HonestManifest == Spec => []ManifestHonest
<1>1. VerifyInv => ManifestHonest
  BY DEF VerifyInv, ManifestHonest, Accepted, Verified, Holds, Listed
<1> QED
  BY <1>1, Invariance, PTL

\* render: the manifest names the document that the files were rendered from, unless it was
\* edited before both exports had read it.
THEOREM OneDocument == Spec => []Provenance
<1>1. VerifyInv => Provenance
  <2> SUFFICES ASSUME VerifyInv, Accepted, ~edited, NEW n \in Exported
               PROVE  Digest(manifest.files[n].from) = manifest.source
    BY DEF Provenance
  <2>1. pc \in Listed
    BY DEF Accepted, Listed
  <2>2. manifest.files[n].from = source.text
    BY <2>1 DEF VerifyInv, Renders, Genuine, Exported
  <2>3. manifest.source = Digest(source.text)
    BY <2>1 DEF VerifyInv, Named
  <2> QED
    BY <2>2, <2>3
<1> QED
  BY <1>1, Invariance, PTL

\* mapOutput: every view has its own diagram, and no two files have a name in common but for
\* its capital letters.
THEOREM DiagramsOwned == Spec => []OwnDiagrams
<1>1. VerifyInv => OwnDiagrams
  <2> SUFFICES ASSUME VerifyInv, Accepted, ~edited PROVE OwnDiagrams
    BY DEF OwnDiagrams
  <2> DEFINE d == source.text
  <2>1. pc \in Listed /\ pc \in KeysKnown
    BY DEF Accepted, Listed, KeysKnown
  <2>2. /\ workspace = d /\ d \in Doc /\ KeysAccepted(Docs[d].workspace)
        /\ manifest.keys = Keys(Docs[d].workspace) /\ ViewKeys = Keys(Docs[d].workspace)
    BY <2>1 DEF VerifyInv, Unedited, Named, ViewKeys
  <2> HIDE DEF d
  <2> DEFINE keys == Keys(Docs[d].workspace)
  <2>3. ASSUME NEW k \in keys, Name(k, FALSE) \in Exported
        PROVE  manifest.files[Name(k, FALSE)].of = k /\ ~manifest.files[Name(k, FALSE)].legend
    <3>1. Name(k, FALSE) # WorkspaceJson
      BY <2>2, OwnNames DEF Name, WorkspaceJson, Dotted
    <3>2. manifest.files[Name(k, FALSE)] = Rendered(d)[Name(k, FALSE)]
      BY <2>1, <2>3, <3>1 DEF VerifyInv, Renders, Genuine, Exported, d
    <3> QED
      BY <2>2, <3>2, OwnPrimary
  <2>4. ASSUME NEW m \in DOMAIN manifest.files, NEW n \in DOMAIN manifest.files,
               m[1] = n[1], m[2] = n[2]
        PROVE  m = n
    <3>1. \A k \in keys : k.tails = 0 /\ k.word \notin Dotted
      BY <2>2, OwnNames
    <3>2. \A k, l \in keys : k.word = l.word => k = l
      BY <2>2, OwnNames
    <3>3. /\ m \in Primaries(keys) \union Legends(keys) \union {WorkspaceJson, Stray}
          /\ n \in Primaries(keys) \union Legends(keys) \union {WorkspaceJson, Stray}
      BY <2>1, <2>2 DEF VerifyInv, Named
    <3>4. ASSUME NEW x \in Primaries(keys) \union Legends(keys) \union {WorkspaceJson, Stray}
          PROVE  \/ x \in {WorkspaceJson, Stray} /\ x[1] \in Dotted
                 \/ \E k \in keys, i \in {0, 1} : x = <<k.word, i, k.cased>> /\ x[1] \notin Dotted
      <4>1. WorkspaceJson[1] \in Dotted /\ Stray[1] \in Dotted
        BY DEF WorkspaceJson, Stray, Dotted
      <4>2. CASE x \in Primaries(keys)
        <5>1. PICK k \in keys : x = <<k.word, k.tails + 0, k.cased>>
          BY <4>2 DEF Primaries, Name
        <5> QED
          BY <3>1, <5>1
      <4>3. CASE x \in Legends(keys)
        <5>1. PICK k \in keys : x = <<k.word, k.tails + 1, k.cased>>
          BY <4>3 DEF Legends, Name
        <5> QED
          BY <3>1, <5>1
      <4> QED
        BY <4>1, <4>2, <4>3
    <3>5. CASE m[1] \in Dotted
      <4>1. m \in {WorkspaceJson, Stray} /\ n \in {WorkspaceJson, Stray}
        BY <2>4, <3>3, <3>4, <3>5
      <4>2. WorkspaceJson[1] # Stray[1]
        BY DEF WorkspaceJson, Stray
      <4> QED
        BY <2>4, <4>1, <4>2
    <3>6. CASE m[1] \notin Dotted
      <4>1. PICK k \in keys, i \in {0, 1} : m = <<k.word, i, k.cased>>
        BY <3>3, <3>4, <3>6
      <4>2. PICK l \in keys, j \in {0, 1} : n = <<l.word, j, l.cased>>
        BY <2>4, <3>3, <3>4, <3>6
      <4> QED
        BY <2>4, <3>2, <4>1, <4>2
    <3> QED
      BY <3>5, <3>6
  <2> QED
    BY <2>2, <2>3, <2>4 DEF OwnDiagrams
<1> QED
  BY <1>1, Invariance, PTL

\* verifyManifestAgainstDirectory: what it finds intact is what the manifest lists, and it
\* refuses nothing else that nobody touched, but a volatile name.
THEOREM ExactRecheck == Spec => []RecheckExact
<1>1. VerifyInv => RecheckExact
  BY DEF VerifyInv
<1> QED
  BY <1>1, Invariance, PTL
=============================================================================
