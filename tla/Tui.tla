-------------------------------- MODULE Tui --------------------------------
(***************************************************************************)
(* The terminal interface and its connection to the daemon.                *)
(*                                                                         *)
(*   crates/phonia-tui/src/conn.rs      the connection: trying, losing it, *)
(*                                      requests each in a task of its own *)
(*   crates/phonia-tui/src/app.rs       what the interface remembers, and  *)
(*                                      where an answer is put             *)
(*   search.rs, library.rs, lyrics.rs, browse.rs, list.rs                  *)
(*                                      what is shown, a page at a time    *)
(*                                                                         *)
(* Answers come in any order, late, or not at all; searches, views, the    *)
(* library and the lyrics are replaced and closed meanwhile, and what the  *)
(* interface knows of the connection trails the connection.                *)
(*                                                                         *)
(* A page is one row, named by what it is of, its list and its offset.     *)
(* A list shows any of its rows, so the next page may be asked for at any  *)
(* time.  An answer reaches the interface when its task hands it over: the *)
(* task may be as late as it likes.  The daemon has the catalogue.         *)
(***************************************************************************)
EXTENDS Naturals, Sequences, SequencesExt, BagsExt

CONSTANTS
  Tabs,        \* the lists of the results
  Parts,       \* what the library loads: "favorites", "playlists", "artists"
  Kinds,       \* kinds of view: "album", "artist" and "list" (a playlist, a folder, a radio)
  Pages,       \* pages there are of anything
  MaxKeys,     \* bound: keys and events that matter
  MaxDrops,    \* bound: connections lost
  MaxNews      \* bound: what the interface has not heard of the connection

ASSUME TuiAssumption ==
  /\ {MaxKeys, MaxDrops} \subseteq Nat /\ {Pages, MaxNews} \subseteq Nat \ {0}
  /\ Kinds \subseteq {"album", "artist", "list"}
  /\ Parts \subseteq {"favorites", "playlists", "artists"}
  /\ "all" \notin Tabs      \* the name of what asks for every list at once

None == 0      \* no track, no text; queries and tracks are numbered as they come

VARIABLES
  link,        \* the task of the connection: "trying", "up", "waiting", "refused"
  retry,       \* the permit of its Notify
  news,        \* what it told the interface of the connection
  channel,     \* requests it has not taken, in order
  underway,    \* requests in tasks of their own
  state,       \* what the interface remembers
  keys, drops  \* counted for the bounds
vars == <<link, retry, news, channel, underway, state, keys, drops>>

(* The section of the queue shows nothing that is loaded.                  *)
Sections == {"home", "search", "library", "lyrics"}
Stacks == {"home", "search", "library"}

---------------------------------------------------------------------------
(* A list that grows a page at a time.                                     *)

NoList == [rows |-> <<>>, total |-> 0, loading |-> FALSE]

(* The page a request is answered with.                                    *)
Page(r, list, result) ==
  IF result = "page" THEN <<[of |-> r.of, list |-> list, at |-> r.at]>> ELSE <<>>

FromPage(page) ==
  [rows |-> page, total |-> IF page = <<>> THEN 0 ELSE Pages, loading |-> FALSE]

\* Mutant: the list does not remember that a page is on its way.
AskableAgain(list) == Len(list.rows) < list.total

Askable(list) == ~list.loading /\ Len(list.rows) < list.total

(* An empty page ends the list.                                            *)
Grown(list, page) ==
  [rows |-> list.rows \o page, loading |-> FALSE,
   total |-> IF page = <<>> THEN Len(list.rows) ELSE Pages]

AllAskable(lists) == [l \in DOMAIN lists |-> [lists[l] EXCEPT !.loading = FALSE]]

Request(tag, number, of, list, at) ==
  [tag |-> tag, number |-> number, of |-> of, list |-> list, at |-> at]

---------------------------------------------------------------------------
(* The search.                                                             *)

Begun(search, query) ==
  [search EXCEPT !.query = query, !.generation = @ + 1, !.phase = "loading",
                 !.lists = [t \in Tabs |-> NoList]]

SearchRequest(search) == Request("search", search.generation, search.query, "all", 0)

(* The answer to a search, or a page of one of its lists.                  *)
SearchFilled(search, r, result) ==
  IF r.list \in Tabs THEN
    IF result = "error" THEN [search EXCEPT !.lists[r.list].loading = FALSE]
    ELSE [search EXCEPT !.lists[r.list] = Grown(@, Page(r, r.list, result))]
  ELSE IF result = "error" THEN [search EXCEPT !.phase = "failed"]
  ELSE [search EXCEPT !.phase = "done",
                      !.lists = [t \in Tabs |-> FromPage(Page(r, t, result))]]

\* Mutant: an answer to an earlier search is taken for one to this.
SearchAnsweredByAny(search, r, result) == SearchFilled(search, r, result)

SearchAnswered(search, r, result) ==
  IF r.number = search.generation THEN SearchFilled(search, r, result) ELSE search

\* Mutant: a search that is done gets a new number as well.
SearchLostAlways(search) ==
  [search EXCEPT !.generation = @ + 1, !.phase = IF @ = "loading" THEN "failed" ELSE @]

SearchLost(search) ==
  IF search.phase = "loading"
    THEN [search EXCEPT !.generation = @ + 1, !.phase = "failed"]
    ELSE search

---------------------------------------------------------------------------
(* Views, opened one from another.                                         *)

ListsOf(kind) == IF kind = "artist" THEN {"top_tracks", "albums"} ELSE {"tracks"}

NewView(serial, kind) ==
  [serial |-> serial, kind |-> kind, phase |-> "loading",
   lists |-> [l \in ListsOf(kind) |-> NoList]]

(* The answer is to opening the view only while the view still waits for   *)
(* it; one that comes after the view gave up is taken for a page, which    *)
(* the answer to an album or an artist is not.                             *)
ViewAnswered(view, r, result) ==
  IF view.phase = "loading" THEN
    IF result = "error" THEN [view EXCEPT !.phase = "failed"]
    ELSE [view EXCEPT !.phase = "done",
                      !.lists = [l \in DOMAIN @ |-> FromPage(Page(r, l, result))]]
  ELSE IF result = "error" \/ (r.list = "all" /\ view.kind # "list")
    THEN [view EXCEPT !.lists = AllAskable(@)]
  ELSE LET l == IF r.list = "all" THEN "tracks" ELSE r.list
       IN  [view EXCEPT !.lists[l] = Grown(@, Page(r, l, result))]

(* The view with the request's number, in whichever stack it is.           *)
ViewsAnswered(views, r, result) ==
  [s \in Stacks |-> [i \in DOMAIN views[s] |->
     IF views[s][i].serial = r.number THEN ViewAnswered(views[s][i], r, result)
                                      ELSE views[s][i]]]

ViewsLost(views) ==
  [s \in Stacks |-> [i \in DOMAIN views[s] |->
     [views[s][i] EXCEPT !.phase = IF @ = "loading" THEN "failed" ELSE @]]]

---------------------------------------------------------------------------
(* The library: three requests, each answered for itself.                  *)

Library(generation, phase) ==
  [generation |-> generation, parts |-> [p \in Parts |-> [phase |-> phase, list |-> NoList]]]

NoLibrary == Library(0, "none")

LibraryRequests(generation) ==
  LET parts == SetToSeq(Parts)
  IN  [i \in DOMAIN parts |-> Request("library", generation, None, parts[i], 0)]

LibraryAnswered(library, r, result) ==
  IF r.number # library.generation THEN library
  ELSE IF r.tag = "library_more" THEN
    IF result = "error" THEN [library EXCEPT !.parts[r.list].list.loading = FALSE]
    ELSE [library EXCEPT !.parts[r.list].list = Grown(@, Page(r, r.list, result))]
  ELSE IF result = "error" THEN [library EXCEPT !.parts[r.list].phase = "failed"]
  ELSE [library EXCEPT !.parts[r.list] =
          [phase |-> "done", list |-> FromPage(Page(r, r.list, result))]]

(* on_favorited: the library is loaded again, over what it shows.          *)
Reloading(library) ==
  [generation |-> library.generation + 1,
   parts |-> [p \in Parts |-> [library.parts[p] EXCEPT !.phase = "loading"]]]

LibraryLost(library) ==
  IF \E p \in Parts : library.parts[p].phase = "loading"
    THEN [generation |-> library.generation + 1,
          parts |-> [p \in Parts |->
            [library.parts[p] EXCEPT !.phase = IF @ = "loading" THEN "failed" ELSE @]]]
    ELSE library

---------------------------------------------------------------------------
(* The lyrics of the track that plays.                                     *)

Lyrics(id, generation, phase) ==
  [id |-> id, generation |-> generation, phase |-> phase, text |-> None]

LyricsRequest(lyrics) == Request("lyrics", lyrics.generation, lyrics.id, "all", 0)

LyricsAnswered(lyrics, r, result) ==
  IF r.number # lyrics.generation THEN lyrics
  ELSE IF result = "error" THEN [lyrics EXCEPT !.phase = "failed"]
  ELSE [lyrics EXCEPT !.phase = "done", !.text = IF result = "page" THEN r.of ELSE None]

LyricsLost(lyrics) ==
  IF lyrics.phase = "loading"
    THEN [lyrics EXCEPT !.generation = @ + 1, !.phase = "failed"]
    ELSE lyrics

---------------------------------------------------------------------------
(* What follows every message: the library is loaded when its section is   *)
(* first shown, the lyrics when theirs is or the track is another.         *)

LibraryDue(new) ==
  new.section \in {"home", "library"} /\ new.connection = "connected" /\ new.library = NoLibrary

Retries(new) ==
  \/ state.section # "lyrics" /\ new.section = "lyrics"
  \/ state.connection # "connected" /\ new.connection = "connected"

LyricsDue(new) ==
  /\ new.section = "lyrics" /\ new.connection = "connected" /\ new.track # None
  /\ new.lyrics.id # new.track \/ (Retries(new) /\ new.lyrics.phase = "failed")

(* update: the state after a message, and the requests that go out.        *)
Update(new, sent) ==
  LET library == LibraryDue(new)
      lyrics  == LyricsDue(new)
      begun   == Lyrics(new.track, new.lyricsGeneration + 1, "loading")
  IN  /\ state' = [new EXCEPT
           !.library = IF library THEN Library(0, "loading") ELSE @,
           !.lyricsGeneration = IF lyrics THEN @ + 1 ELSE @,
           !.lyrics = IF lyrics THEN begun ELSE @]
      /\ channel' = channel \o sent
           \o (IF library THEN LibraryRequests(0) ELSE <<>>)
           \o (IF lyrics THEN <<LyricsRequest(begun)>> ELSE <<>>)

---------------------------------------------------------------------------
(* The interface hears of the connection: of a track that plays, which is  *)
(* another one perhaps.                                                    *)

HearNews(what) ==
  /\ news # <<>> /\ Head(news) = what /\ news' = Tail(news)
  /\ UNCHANGED <<link, retry, underway, keys, drops>>

HearConnected ==
  /\ HearNews("connected")
  /\ \E t \in {state.track, state.track + 1} \ {None} :
       Update([state EXCEPT !.connection = "connected", !.track = t], <<>>)

HearDisconnected ==
  /\ HearNews("disconnected")
  /\ Update([state EXCEPT !.connection = "disconnected",
                          !.search = SearchLost(@), !.views = ViewsLost(@),
                          !.library = LibraryLost(@), !.lyrics = LyricsLost(@)], <<>>)

HearRefused ==
  /\ HearNews("refused")
  /\ Update([state EXCEPT !.connection = "refused"], <<>>)

---------------------------------------------------------------------------
(* The interface is given an answer.                                       *)

Placed(r, result) ==
  CASE r.tag = "search"   -> [state EXCEPT !.search = SearchAnswered(@, r, result)]
    [] r.tag = "view"     -> [state EXCEPT !.views = ViewsAnswered(@, r, result)]
    [] r.tag \in {"library", "library_more"}
                          -> [state EXCEPT !.library = LibraryAnswered(@, r, result)]
    [] r.tag = "lyrics"   -> [state EXCEPT !.lyrics = LyricsAnswered(@, r, result)]
    [] r.tag = "favorite" -> IF result = "error" \/ state.library = NoLibrary THEN state
                             ELSE [state EXCEPT !.library = Reloading(@)]

(* on_response.                                                            *)
HearAnswer(r, result) ==
  /\ BagIn(r, underway) /\ underway' = BagRemove(underway, r)
  /\ UNCHANGED <<link, retry, news, keys, drops>>
  /\ LET new == Placed(r, result)
     IN  Update(new, IF r.tag = "favorite" /\ new # state
                       THEN LibraryRequests(new.library.generation) ELSE <<>>)

---------------------------------------------------------------------------
(* Keys, and the event that another track plays.                           *)

Key(new, sent) ==
  /\ keys < MaxKeys /\ keys' = keys + 1
  /\ Update(new, sent)
  /\ UNCHANGED <<link, news, underway, drops>>

TrackChanges ==
  /\ state.connection = "connected"
  /\ Key([state EXCEPT !.track = @ + 1], <<>>)
  /\ UNCHANGED retry

ShowSection ==
  /\ \E s \in Sections \ {state.section} : Key([state EXCEPT !.section = s], <<>>)
  /\ UNCHANGED retry

(* submit_search: without a connection, the failure is shown.              *)
SubmitSearch ==
  /\ state.section = "search"
  /\ LET begun == Begun(state.search, keys + 1)
     IN  IF state.connection = "connected"
           THEN Key([state EXCEPT !.search = begun], <<SearchRequest(begun)>>)
           ELSE Key([state EXCEPT !.search.phase = "failed"], <<>>)
  /\ UNCHANGED retry

(* Whether there is a row to open a view from.                             *)
Openable(s) ==
  LET Shown(phase, list) == phase = "done" /\ list.rows # <<>>
      stack == state.views[s]
  IN  IF stack # <<>> THEN \E l \in DOMAIN Last(stack).lists :
                              Shown(Last(stack).phase, Last(stack).lists[l])
      ELSE IF s = "search" THEN \E t \in Tabs : Shown(state.search.phase, state.search.lists[t])
      ELSE \E p \in Parts : Shown(state.library.parts[p].phase, state.library.parts[p].list)

\* Mutant: views are opened with the same number.
OpenViewUncounted ==
  /\ state.connection = "connected" /\ state.section \in Stacks /\ Openable(state.section)
  /\ \E kind \in Kinds :
       LET serial == state.nextSerial
       IN  Key([state EXCEPT !.views[state.section] = Append(@, NewView(serial, kind))],
               <<Request("view", serial, serial, "all", 0)>>)
  /\ UNCHANGED retry

OpenView ==
  /\ state.connection = "connected" /\ state.section \in Stacks /\ Openable(state.section)
  /\ \E kind \in Kinds :
       LET serial == state.nextSerial
       IN  Key([state EXCEPT !.nextSerial = @ + 1,
                             !.views[state.section] = Append(@, NewView(serial, kind))],
               <<Request("view", serial, serial, "all", 0)>>)
  /\ UNCHANGED retry

CloseView ==
  /\ state.section \in Stacks /\ state.views[state.section] # <<>>
  /\ Key([state EXCEPT !.views[state.section] = Front(@)], <<>>)
  /\ UNCHANGED retry

(* load_more_results: the list shown, on top of the stack if it has views. *)
MoreOfView ==
  LET s == state.section
  IN  /\ s \in {"search", "library"} /\ state.views[s] # <<>>
      /\ LET view == Last(state.views[s])
             n    == Len(state.views[s])
         IN  /\ view.phase = "done"
             /\ \E l \in DOMAIN view.lists :
                  /\ Askable(view.lists[l])
                  /\ Key([state EXCEPT !.views[s][n].lists[l].loading = TRUE],
                         <<Request("view", view.serial, view.serial, l,
                                           Len(view.lists[l].rows))>>)
      /\ UNCHANGED retry

MoreOfSearch ==
  /\ state.section = "search" /\ state.views["search"] = <<>> /\ state.search.phase = "done"
  /\ \E t \in Tabs :
       /\ Askable(state.search.lists[t])
       /\ Key([state EXCEPT !.search.lists[t].loading = TRUE],
              <<Request("search", state.search.generation, state.search.query, t,
                                Len(state.search.lists[t].rows))>>)
  /\ UNCHANGED retry

MoreOfLibrary ==
  /\ state.section = "library" /\ state.views["library"] = <<>>
  /\ \E p \in Parts :
       LET part == state.library.parts[p]
       IN  /\ part.phase = "done" /\ Askable(part.list)
           /\ Key([state EXCEPT !.library.parts[p].list.loading = TRUE],
                  <<Request("library_more", state.library.generation, None, p,
                                    Len(part.list.rows))>>)
  /\ UNCHANGED retry

(* send_favorite, on a row of whatever is shown.                           *)
SetFavorite ==
  /\ state.connection = "connected" /\ state.section \in Stacks /\ Openable(state.section)
  /\ Key(state, <<Request("favorite", 0, None, "all", 0)>>)
  /\ UNCHANGED retry

\* Mutant: the task of the connection is not told.
ReconnectSilently ==
  /\ state.connection \in {"disconnected", "refused"}
  /\ Key([state EXCEPT !.connection = "connecting"], <<>>) /\ UNCHANGED retry

Reconnect ==
  /\ state.connection \in {"disconnected", "refused"}
  /\ Key([state EXCEPT !.connection = "connecting"], <<>>) /\ retry' = TRUE

---------------------------------------------------------------------------
(* The task of the connection.                                             *)

Tells(what) ==
  /\ Len(news) < MaxNews /\ news' = Append(news, what)
  /\ UNCHANGED <<retry, channel, underway, state, keys>>

Connect == link = "trying" /\ link' = "up" /\ Tells("connected") /\ UNCHANGED drops

FailToConnect ==
  link = "trying" /\ link' = "waiting" /\ Tells("disconnected") /\ UNCHANGED drops

MeetAnother == link = "trying" /\ link' = "refused" /\ Tells("refused") /\ UNCHANGED drops

LoseConnection ==
  /\ link = "up" /\ link' = "waiting" /\ drops < MaxDrops /\ drops' = drops + 1
  /\ Tells("disconnected")

(* After the delay, or at once when the user asks.                         *)
WaitEnds ==
  /\ link = "waiting" /\ link' = "trying"
  /\ UNCHANGED <<retry, news, channel, underway, state, keys, drops>>

TakeRetry ==
  /\ link \in {"waiting", "refused"} /\ retry /\ retry' = FALSE /\ link' = "trying"
  /\ UNCHANGED <<news, channel, underway, state, keys, drops>>

SendRequest ==
  /\ link = "up" /\ channel # <<>>
  /\ channel' = Tail(channel) /\ underway' = BagAdd(underway, Head(channel))
  /\ UNCHANGED <<link, retry, news, state, keys, drops>>

---------------------------------------------------------------------------
Init ==
  /\ link = "trying" /\ retry = FALSE /\ news = <<>>
  /\ channel = <<>> /\ underway = EmptyBag
  /\ state = [connection |-> "connecting", section |-> "home", track |-> None,
              search |-> [query |-> None, generation |-> 0, phase |-> "none",
                          lists |-> [t \in Tabs |-> NoList]],
              views |-> [s \in Stacks |-> <<>>], nextSerial |-> 0,
              library |-> NoLibrary,
              lyrics |-> Lyrics(None, 0, "none"), lyricsGeneration |-> 0]
  /\ keys = 0 /\ drops = 0

(* A first page has rows; a later one, or the lyrics, may be empty.        *)
Results(r) ==
  {"page", "error"} \cup (IF r.at > 0 \/ r.tag = "lyrics" THEN {"nothing"} ELSE {})

Answers == \E r \in BagToSet(underway) : \E result \in Results(r) : HearAnswer(r, result)
Hears == HearConnected \/ HearDisconnected \/ HearRefused
Attempts == Connect \/ FailToConnect \/ MeetAnother
Task == SendRequest \/ Attempts \/ WaitEnds \/ TakeRetry
User ==
  \/ TrackChanges \/ ShowSection \/ SubmitSearch \/ OpenView \/ CloseView
  \/ MoreOfView \/ MoreOfSearch \/ MoreOfLibrary \/ SetFavorite \/ Reconnect

Next == Answers \/ Hears \/ Task \/ LoseConnection \/ User

Spec == Init /\ [][Next]_vars

(* The interface takes its messages, the task of the connection goes on    *)
(* trying and sends what it is given, and a request is answered, or fails  *)
(* with its connection.  No connection has to last.                        *)
FairSpec == Spec /\ WF_vars(Answers) /\ WF_vars(Hears) /\ WF_vars(Task)
=============================================================================
