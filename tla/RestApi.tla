------------------------------ MODULE RestApi ------------------------------
(***************************************************************************)
(* What the HTTP API takes a URL for: the routes of rest_api.rs with the   *)
(* handlers up to their query of the database.                             *)
(*                                                                         *)
(* A URL is its path after the first slash, decoded, and its query, which  *)
(* is not decoded, or None.                                                *)
(***************************************************************************)
EXTENDS Paths

Reject     == [type |-> "reject"]       \* the next route is tried
BadRequest == [type |-> "bad_request"]
Panicked   == [type |-> "panicked"]
Lookup(type, text) == [type |-> type, text |-> text]  \* the database is asked

\* The handler of an event, once the text of its id has been put together.
EventAnswer[text \in Text] ==
  LET Reply[event \in Ids \union {Invalid, Panics}] ==
        CASE event = Invalid -> BadRequest
          [] event = Panics  -> Panicked
          [] event \in Ids   -> Lookup("event", text)
  IN IF ~IsPath(text) THEN BadRequest
     ELSE IF StripEvent(text) = None THEN Reject ELSE Reply[EventIdOf(text)]

\* Mutant: the query belongs to the request and not to the id.
GetEvent_NoQuery(tail, query) ==
  IF Last(tail) = "/" THEN Reject ELSE EventAnswer[Root \o tail]

GetEvent(tail, query) ==
  IF Last(tail) = "/" THEN Reject
  ELSE EventAnswer[Root \o tail \o (IF query = None THEN <<>> ELSE <<"?">> \o query)]

\* One slash at the end does not matter.
GetPath(tail) ==
  LET path == Root \o (IF Last(tail) = "/" THEN Front(tail) ELSE tail)
  IN IF IsPath(path) THEN Lookup("node", path) ELSE BadRequest

\* The first answer that is no rejection: with the query, without it, as a path.
FirstOf(event, url) ==
  IF event[url.query] # Reject THEN event[url.query]
  ELSE IF event[None] # Reject THEN event[None] ELSE GetPath(url.tail)

\* routes: root, event_with_query, event, path.
Route(url) ==
  IF url.tail = <<>> THEN Lookup("root", Root)
  ELSE FirstOf([query \in {url.query, None} |-> GetEvent(url.tail, query)], url)

\* A client encodes the text of an id or a path, or writes it as it is.
Encoded(text) == [tail |-> Tail(text), query |-> None]
Verbatim(text) ==
  LET cut == Cut(Tail(text), "?")
  IN [tail |-> cut[1], query |-> IF Len(cut) = 1 THEN None ELSE cut[2]]

(* The URL of an event is its id, question mark and all, and it is never     *)
(* taken for another event or a node; a text that is no id is refused, and   *)
(* only one that panics the parser (parties, event.rs:231) panics the        *)
(* request: an equality predicate of a match or a duel without two teams.    *)
(* Written as it is, an id whose last name starts with a question mark names *)
(* the directory instead, if that has no question mark either.  A path names *)
(* its node, with or without a slash at the end, unless there is a dot in    *)
(* its last name: then it is taken for the id of an event.                   *)
UrlsAnswered ==
  id # None /\ derived = None /\ outcome = None =>
    \A dir \in Directories : \A text \in {IdText(dir, id)}, kind \in {EventKind(id)} :
      LET path   == PrefixPath(Root \o TeamsText(id), dir)
          answer == IF parsed = id THEN Lookup("event", text)
                    ELSE IF Len(id.teams) < 2 /\ kind # Invalid /\ kind.type = "eq"
                            /\ kind.inner.type \in {"vs", "winner"}
                    THEN Panicked ELSE BadRequest
          node(p) == Lookup(IF p = Root THEN "root" ELSE "node", p)
          above   == IF Head(id.teams[1] \o <<".">>) = "?" THEN node(dir) ELSE answer
          answers ==  \* of each URL
            {<<Encoded(text), answer>>,
             <<Encoded(dir), IF StripEvent(dir) = None THEN node(dir) ELSE EventAnswer[dir]>>}
            \union (IF "?" \in Range(dir) THEN {} ELSE {<<Verbatim(text), above>>})
            \union (IF TeamsText(id) = <<>> THEN {}
                    ELSE {<<Encoded(path \o slash), node(path)>> : slash \in {<<>>, Root}})
      IN \A pair \in answers : Route(pair[1]) = pair[2]
=============================================================================
