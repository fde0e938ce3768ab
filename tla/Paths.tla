------------------------------- MODULE Paths -------------------------------
(***************************************************************************)
(* Paths as texts, the ids on them, and the prefix that sets the events of *)
(* a source apart from all others: path.rs, and db/prefixed.rs with the    *)
(* prefix_path of the oracle loop.                                         *)
(*                                                                         *)
(* A text is a sequence of tokens: slashes, dots, underscores and parts of *)
(* names.  The id of Outcomes, teams and kind, is the last name of a path. *)
(***************************************************************************)
EXTENDS Outcomes

CONSTANT Directories  \* the paths events are put below, and sources run on

Root == <<"/">>

\* Path::from_str
IsPath(text) ==
  /\ text # <<>> /\ Head(text) = "/"
  /\ Last(text) = "/" => text = Root

\* A name is what is between slashes; the teams of an id are what is before its
\* dot, between underscores.
ASSUME PathsAssumption ==
  /\ {"/", "."} \subseteq Token
  /\ \A p \in Directories : p \in Text /\ IsPath(p)
  /\ \A teams \in TeamTexts : \A i \in DOMAIN teams :
       Range(teams[i]) \intersect {"/", ".", "_"} = {}
  /\ \A kind \in KindTexts : "/" \notin Range(kind)

Rest(text, i) == SubSeq(text, i + 1, Len(text))

\* The place of the last slash; 0 where there is none.
Slash(text) == SelectLastInSeq(text, LAMBDA t : t = "/")

PrefixPath(path, prefix) ==
  CASE path = Root                     -> prefix
    [] path # Root /\ prefix = Root    -> path
    [] path # Root /\ prefix # Root    -> prefix \o path

\* Mutant: the slash after the prefix goes with it.
StripPrefixPath_Slash(path, prefix) ==
  IF prefix # Root /\ IsPrefix(prefix, path) THEN Rest(path, Len(prefix) + 1) ELSE path

\* str::strip_prefix: what is left of a longer name, too.
StripPrefixPath(path, prefix) ==
  IF prefix # Root /\ IsPrefix(prefix, path) THEN Rest(path, Len(prefix)) ELSE path

\* The path of an event and its kind: cut at the first dot of the last name.
StripEvent(text) ==
  LET slash == Slash(text)
      dots  == {i \in slash + 1 .. Len(text) : text[i] = "."}
  IN IF slash = 0 \/ dots = {} THEN None
     ELSE [path |-> SubSeq(text, 1, Min(dots) - 1), kind |-> Rest(text, Min(dots))]

\* One more token of a text in parts.
NextToken(parts, token, sep) ==
  IF token = sep THEN Append(parts, <<>>)
                 ELSE Append(Front(parts), Append(Last(parts), token))

\* str::split
Split(text, sep) ==
  LET parts[n \in 0 .. Len(text)] ==  \* those of the first n tokens
        IF n = 0 THEN << <<>> >> ELSE NextToken(parts[n - 1], text[n], sep)
  IN parts[Len(text)]

Ids == [teams : Seq(Text), kind : Text]

ASSUME ErrorsAreNoIds ==
  /\ Invalid # Panics /\ {Invalid, Panics} \intersect Ids = {}
  /\ None \notin Text \union [path : Text, kind : Text]

\* EventId::try_from, of a path as it is; the event as Outcomes has it.
EventIdOf(text) ==
  LET event == StripEvent(text)
      Id[e \in Ids] == TryFrom(e)
  IN IF event = None THEN Invalid
     ELSE Id[[teams |-> Split(Rest(event.path, Slash(event.path)), "_"), kind |-> event.kind]]

\* The last name of the path of an id of Outcomes.
TeamsText(e) ==
  FlattenSeq([i \in DOMAIN e.teams |-> IF i = 1 THEN e.teams[i] ELSE <<"_">> \o e.teams[i]])

\* from_path_and_kind, of an id of Outcomes in a directory.
IdText(dir, e) == PrefixPath(Root \o TeamsText(e) \o <<".">> \o e.kind, dir)

-----------------------------------------------------------------------------
(* A source yields ids below its own root, the loop puts the source's path  *)
(* in front, and PrefixedDb takes it off from what a query has found.       *)

Found(stored, prefix) == IsPrefix(prefix, StripEvent(stored).path)

SeenBySource(stored, prefix) == StripPrefixPath(stored, prefix)

(* An event that a source has announced comes back to it from the database   *)
(* under the id it gave it, and what it says of any event that its queries   *)
(* find is said of that event.  The text that is left is an id, except where *)
(* the source's path ends in the last name of the event: the event is on the *)
(* path of the source itself, or, in memory, its name goes on after it.      *)
(* There it has no path, and the first to ask for its kind panics.           *)
PrefixComesOff ==
  parsed = id /\ id # None /\ derived = None /\ outcome = None =>
    \A dir, prefix \in Directories :
      LET yielded == IdText(dir, id)
          seen    == SeenBySource(yielded, prefix)
      IN /\ SeenBySource(PrefixPath(yielded, prefix), prefix) = yielded
         /\ Found(yielded, prefix) =>
              /\ PrefixPath(seen, prefix) = yielded
              /\ EventIdOf(seen) = IF prefix # Root /\ Slash(yielded) <= Len(prefix)
                                   THEN Invalid ELSE id
=============================================================================
