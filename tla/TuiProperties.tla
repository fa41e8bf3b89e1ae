---------------------------- MODULE TuiProperties ----------------------------
(***************************************************************************)
(* What a user may expect of the terminal interface.                       *)
(***************************************************************************)
EXTENDS Tui

Phases == {"none", "loading", "failed", "done"}
Views == UNION {ToSet(state.views[s]) : s \in Stacks}

(* The parts have their types; every view has a number of its own, below   *)
(* the next; nothing is asked with a number that was not given out.        *)
TypeOK ==
  /\ link \in {"trying", "up", "waiting", "refused"} /\ retry \in BOOLEAN
  /\ ToSet(news) \subseteq {"connected", "disconnected", "refused"} /\ Len(news) <= MaxNews
  /\ state.connection \in {"connecting", "connected", "disconnected", "refused"}
  /\ state.section \in Sections /\ state.track \in Nat
  /\ state.search.phase \in Phases /\ state.lyrics.phase \in Phases
  /\ \A p \in Parts : state.library.parts[p].phase \in Phases
  /\ \A v \in Views : v.phase \in Phases \ {"none"} /\ v.serial < state.nextSerial
  /\ \A s, t \in Stacks : \A i \in DOMAIN state.views[s], j \in DOMAIN state.views[t] :
       state.views[s][i].serial = state.views[t][j].serial => s = t /\ i = j
  /\ \A r \in ToSet(channel) \cup BagToSet(underway) :
       /\ r.tag = "search" => r.number <= state.search.generation
       /\ r.tag = "view" => r.number < state.nextSerial
       /\ r.tag \in {"library", "library_more"} => r.number <= state.library.generation
       /\ r.tag = "lyrics" => r.number <= state.lyricsGeneration

(* The pages a list shows are those of what it is a list of, in order and  *)
(* each once.                                                              *)
ShowsInOrder(list, of, name) ==
  \A i \in DOMAIN list.rows : list.rows[i] = [of |-> of, list |-> name, at |-> i - 1]

(* Whatever was replaced, closed, asked again or answered late, what is    *)
(* shown is of what it says it is: the results are the query's, a view     *)
(* shows its own rows, and the lyrics are of the track they name, which    *)
(* is the one that plays when they are looked at.  Only the lists of an    *)
(* artist may show a page twice: a page that fails makes the other list    *)
(* askable again while its page is on its way (clear_pending).             *)
RowsAreTheirOwn ==
  /\ \A t \in Tabs : ShowsInOrder(state.search.lists[t], state.search.query, t)
  /\ \A p \in Parts : ShowsInOrder(state.library.parts[p].list, None, p)
  /\ \A v \in Views : \A l \in DOMAIN v.lists :
       IF v.kind = "artist"
         THEN \A i \in DOMAIN v.lists[l].rows :
                v.lists[l].rows[i].of = v.serial /\ v.lists[l].rows[i].list = l
         ELSE ShowsInOrder(v.lists[l], v.serial, l)
  /\ state.lyrics.text \in {None, state.lyrics.id}
  /\ state.section = "lyrics" /\ state.connection = "connected" /\ state.track # None =>
       state.lyrics.id = state.track

(* An answer that will be taken is on its way.                             *)
Awaited(tag, number, list) ==
  \E r \in ToSet(channel) \cup BagToSet(underway) :
    r.tag = tag /\ r.number = number /\ r.list = list

(* Whatever is shown as loading, and whatever list will not ask for more   *)
(* because it has, has an answer on its way that it will take: a number    *)
(* that moves on must leave nothing waiting under the old one.  The pages  *)
(* of the library are left out: losing the connection while another part   *)
(* still loads moves the number all parts share.                           *)
LoadingIsAwaited ==
  /\ state.search.phase = "loading" => Awaited("search", state.search.generation, "all")
  /\ \A t \in Tabs : state.search.lists[t].loading =>
       Awaited("search", state.search.generation, t)
  /\ \A v \in Views :
       /\ v.phase = "loading" => Awaited("view", v.serial, "all")
       /\ \A l \in DOMAIN v.lists : v.lists[l].loading => Awaited("view", v.serial, l)
  /\ \A p \in Parts : state.library.parts[p].phase = "loading" =>
       Awaited("library", state.library.generation, p)
  /\ state.lyrics.phase = "loading" => Awaited("lyrics", state.lyrics.generation, "all")

(* Something is shown as loading, or as connecting.  The library may be    *)
(* asked for again after the connection went, and waits for the next then. *)
Waiting ==
  \/ "loading" \in {state.search.phase, state.lyrics.phase} \cup {v.phase : v \in Views}
  \/ state.connection # "refused" /\ \E p \in Parts : state.library.parts[p].phase = "loading"
  \/ state.connection = "connecting"

(* Nothing is shown as loading for ever, and asking to connect leads to an *)
(* attempt, whatever is lost: a search, a view, the lyrics and the library *)
(* are answered or fail.                                                   *)
NothingWaitsForEver == []<>~Waiting
=============================================================================
