-------------------------- MODULE StructurizrChecks --------------------------
(***************************************************************************)
(* What structurizr-source.ts and structurizr-verify.ts check of one model *)
(* and its export, without the files.                                      *)
(*   line       tokens: "prose" is a quoted string, "!permitted" one of the*)
(*              three directives, "#" a remark sign; any other is a word   *)
(*   workspace  [shaped, people, systems, views], of nodes [id, rels, inner]*)
(*              and views [key, elements]; not shaped: not JSON, or a value*)
(*              that is no object, array or string where one is read       *)
(*   key        [word, tails, safe, cased]: word with "-key" after it tails*)
(*              times; safe matches the pattern, cased has capital letters *)
(*   svg        the events of its parser; a value is the set of its marks  *)
(***************************************************************************)
EXTENDS Integers, SequencesExt

CONSTANTS MaxElements, MaxDepth, MaxAttributes   \* of structurizr-verify.ts

First(line, t) == SelectInSeq(line, LAMBDA x : x = t)
Before(line, i) == SubSeq(line, 1, i - 1)
After(line, i) == SubSeq(line, i + 1, Len(line))

\* The line without its comment, and whether a block comment is open after it.  Of the
\* blocks that begin on a line the first is removed, unless a string is before it.
Uncomment(block, line) ==
  LET closed == ~block \/ First(line, "*/") # 0
      rest == IF ~block THEN line ELSE IF closed THEN After(line, First(line, "*/")) ELSE <<>>
      start == First(rest, "/*")
      begins == start # 0 /\ First(Before(rest, start), "prose") = 0
      end == First(After(rest, start), "*/")
  IN CASE ~begins -> [block |-> ~closed, line |-> rest]
       [] begins /\ end = 0 -> [block |-> TRUE, line |-> Before(rest, start)]
       [] begins /\ end # 0 -> [block |-> FALSE,
                               line |-> Before(rest, start) \o After(After(rest, start), end)]

Structural(line) ==
  LET remark == First(line, "#")
  IN SelectSeq(IF remark = 0 THEN line ELSE Before(line, remark), LAMBDA t : t # "prose")

\* A directive other than the three, alone on its line, or workspace extends.
LineRefused(line) ==
  \/ line # <<>> /\ line[1] = "!other"
  \/ line # <<>> /\ line[1] = "!permitted" /\ Len(line) > 1
  \/ /\ line # <<>> /\ line[1] # "!permitted"
     /\ IsPrefix(<<"workspace", "extends">>, Structural(line))

ScanRefuses(lines) ==
  LET scan(s, line) == LET u == Uncomment(s.block, line)
                       IN [block |-> u.block, refused |-> s.refused \/ LineRefused(u.line)]
  IN FoldLeft(scan, [block |-> FALSE, refused |-> FALSE], lines).refused

-----------------------------------------------------------------------------
(* workspace.json.                                                         *)

Nodes(w) ==
  LET below(c) == <<c>> \o c.inner
      system(s) == <<s>> \o FlattenSeq([i \in DOMAIN s.inner |-> below(s.inner[i])])
  IN w.people \o FlattenSeq([i \in DOMAIN w.systems |-> system(w.systems[i])])

ElementIds(w) == {n.id : n \in ToSet(Nodes(w))}
Relationships(w) == UNION {n.rels : n \in ToSet(Nodes(w))}

\* parseWorkspace: otherwise CONSISTENCY JSON.
Parses(w) ==
  /\ w.shaped
  /\ Cardinality(ElementIds(w)) = Len(Nodes(w))
  /\ \A r \in Relationships(w) : r[1] \in ElementIds(w) /\ r[2] \in ElementIds(w)
  /\ \A i \in DOMAIN w.views : w.views[i].elements \subseteq ElementIds(w)
  /\ w.views # <<>>

Keys(w) == {w.views[i].key : i \in DOMAIN w.views}

\* verifyViewKeys: otherwise CONSISTENCY VIEW_KEY.
KeysLegendary(w) ==    \* mutant: a key may end with -key
  /\ \A k \in Keys(w) : k.safe
  /\ \A i, j \in DOMAIN w.views :
       [w.views[i].key EXCEPT !.cased = FALSE] = [w.views[j].key EXCEPT !.cased = FALSE]
         => i = j
KeysAccepted(w) ==
  /\ \A k \in Keys(w) : k.safe /\ k.tails = 0
  /\ \A i, j \in DOMAIN w.views :
       [w.views[i].key EXCEPT !.cased = FALSE] = [w.views[j].key EXCEPT !.cased = FALSE]
         => i = j

Canonical == {"context", "container", "component"}
PlainKey(word) == [word |-> word, tails |-> 0, safe |-> TRUE, cased |-> FALSE]
Elements(w, word) ==
  (CHOOSE v \in ToSet(w.views) : v.key = PlainKey(word)).elements

\* verifyLineage: otherwise CONSISTENCY LINEAGE.
LineageHolds(w) ==
  /\ \A c \in Canonical : PlainKey(c) \in Keys(w)
  /\ \E e \in ElementIds(w) : \A c \in Canonical : e \in Elements(w, c)
  /\ \E r \in Relationships(w) :
       /\ r[1] # r[2]
       /\ \A c \in Canonical : r[1] \in Elements(w, c) \/ r[2] \in Elements(w, c)

-----------------------------------------------------------------------------
(* Files.                                                                  *)

Name(key, legend) == <<key.word, key.tails + (IF legend THEN 1 ELSE 0), key.cased>>
WorkspaceJson == <<"workspace.json", 0, FALSE>>
ManifestJson == <<"manifest.json", 0, FALSE>>
Primaries(keys) == {Name(k, FALSE) : k \in keys}
Legends(keys) == {Name(k, TRUE) : k \in keys}

\* mapOutput's loop over the entries and its check that every view has its primary.
Maps(entries, keys) ==
  /\ entries \ {WorkspaceJson, ManifestJson} \subseteq Primaries(keys) \union Legends(keys)
  /\ Primaries(keys) \subseteq entries
  /\ WorkspaceJson \in entries

-----------------------------------------------------------------------------
(* verifySvgText.  The marks of a value: "fragment" when all of it is one, *)
(* "url" and "remote" for a functional IRI that is local and one that is   *)
(* not, "blank", "permitted" for one of the namespaces, and what           *)
(* assertPassiveCss looks for.                                             *)

Namespaces == {"svg", "xlink", "xml", "xmlns"}
ProhibitedElements == {"script", "foreignobject", "set", "a", "use", "filter"}
IriAttributes == {"href", "src", "data"}
UrlBearingAttributes == {"fill", "style", "clip-path"}
CssMarks == {"\\", "/*", "*/", "@", "expression(", "behavior:"}

FunctionalIrisLocal(value) == "remote" \notin value
PassiveCss(value) == value \intersect CssMarks = {} /\ FunctionalIrisLocal(value)

AttributePassive(a) ==
  IF a.uri = "xmlns" \/ a.local = "xmlns" THEN "permitted" \in a.value
  ELSE /\ a.local # "on..."
       /\ a.uri = "xml" /\ a.local = "base" => "blank" \in a.value
       /\ a.uri \in {""} \union Namespaces
       /\ CASE a.local \in IriAttributes -> "fragment" \in a.value
            [] a.local \in UrlBearingAttributes -> PassiveCss(a.value)
            [] OTHER -> FunctionalIrisLocal(a.value)

\* Text is held to all the rules only when it shows one of three marks.
TextPassive(value) ==
  IF value \intersect {"@", "\\", "/*"} # {} THEN PassiveCss(value)
  ELSE FunctionalIrisLocal(value)

Opens(events, i) == {j \in 1..i : events[j].event = "open"}
Closes(events, i) == {j \in 1..i : events[j].event = "close"}

ElementPassive(events, i) ==
  /\ Cardinality(Opens(events, i)) \leq MaxElements
  /\ Cardinality(Opens(events, i)) - Cardinality(Closes(events, i)) \leq MaxDepth
  /\ Opens(events, i) = {i} => events[i].local = "svg" /\ events[i].uri = "svg"
  /\ events[i].uri \in {"svg", "", "xlink"}
  /\ events[i].local \notin ProhibitedElements
  /\ Cardinality(events[i].attributes) \leq MaxAttributes
  /\ \A a \in events[i].attributes : AttributePassive(a)

\* An "error" is the parser's or a control character, "doctype" and "pi" are refused.
Passive(events) ==
  /\ Opens(events, Len(events)) # {}
  /\ \A i \in DOMAIN events :
       /\ events[i].event \in {"open", "close", "text"}
       /\ events[i].event = "open" => ElementPassive(events, i)
       /\ events[i].event = "text" => TextPassive(events[i].value)
=============================================================================
