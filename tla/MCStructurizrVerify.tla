------------------------ MODULE MCStructurizrVerify ------------------------
(* One good document, and others that differ from it in one respect each.  *)
EXTENDS StructurizrVerify

Node(id, rels, inner) == [id |-> id, rels |-> rels, inner |-> inner]
Component == Node("parser", {}, <<>>)
Container == Node("service", {}, <<Component>>)
System == Node("system", {}, <<Container>>)
User(to) == Node("visitor", {<<"visitor", to>>}, <<>>)
View(key) == [key |-> key, elements |-> {"visitor", "system"}]
CanonicalViews == <<View(PlainKey("context")), View(PlainKey("container")),
                    View(PlainKey("component"))>>
Legend == [PlainKey("context") EXCEPT !.tails = 1]

Workspace(user, systems, more) ==
  [shaped |-> TRUE, people |-> <<user>>, systems |-> systems,
   views |-> CanonicalViews \o more]
Good == Workspace(User("system"), <<System>>, <<>>)

Lines == <<<<"!permitted">>, <<"workspace", "prose", "{">>,
           <<"/*", "!other">>, <<"!other", "*/", "word">>, <<"word", "#", "extends">>>>
Base == [size |-> 1, utf8 |-> TRUE, lines |-> Lines, lf |-> "base", workspace |-> Good,
         legends |-> {PlainKey("context")}, primary |-> "plain", legend |-> "plain"]
Other(w) == [Base EXCEPT !.workspace = w]

MCDocs == [d \in {"base", "crlf"} |-> Base]
  @@ "large" :> [Base EXCEPT !.size = 2, !.lf = "large"]
  @@ "binary" :> [Base EXCEPT !.utf8 = FALSE, !.lf = "binary"]
  @@ "include" :> [Base EXCEPT !.lines = <<<<"!other">>>>, !.lf = "include"]
  @@ "broken" :> [Other([Good EXCEPT !.shaped = FALSE]) EXCEPT !.lf = "broken"]
  @@ "nowhere" :> [Other(Workspace(User("gone"), <<System>>, <<>>)) EXCEPT !.lf = "nowhere"]
  @@ "unlinked" :> [Other(Workspace(User("visitor"), <<System>>, <<>>)) EXCEPT !.lf = "unlinked"]
  @@ "user" :> [Other(Workspace(User("system"), <<System>>, <<View(PlainKey("user"))>>))
                  EXCEPT !.lf = "user"]
  @@ "tail" :> [Other(Workspace(User("system"), <<System>>, <<View(Legend)>>))
                  EXCEPT !.lf = "tail"]
  @@ "script" :> [Base EXCEPT !.legend = "script", !.lf = "script"]
  @@ "heavy" :> [Base EXCEPT !.primary = "heavy", !.lf = "heavy"]

Tag(local, attributes) ==
  [event |-> "open", local |-> local, uri |-> "svg", attributes |-> attributes, value |-> {}]
Mark(kind, value) ==
  [event |-> kind, local |-> "", uri |-> "", attributes |-> {}, value |-> value]
Fill == [uri |-> "", local |-> "fill", value |-> {"url"}]
Xmlns == [uri |-> "xmlns", local |-> "xmlns", value |-> {"permitted"}]
Plain == <<Tag("svg", {Xmlns}), Tag("rect", {Fill}), Mark("close", {}),
           Mark("text", {"url"}), Mark("close", {})>>

MCBodies ==
  "plain" :> [size |-> 1, events |-> Plain]
  @@ "heavy" :> [size |-> 2, events |-> Plain]
  @@ "script" :> [size |-> 1, events |-> <<Tag("svg", {}), Tag("script", {})>>]
=============================================================================
