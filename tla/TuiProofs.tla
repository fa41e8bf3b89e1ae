------------------------------ MODULE TuiProofs ------------------------------
(***************************************************************************)
(* Whatever is searched for, opened, closed and reloaded, and however late *)
(* answers come or connections go: what is shown is what it says it is,    *)
(* and what is shown as loading has an answer on its way.                  *)
(***************************************************************************)
EXTENDS IdSequenceLemmas, TuiProperties

---------------------------------------------------------------------------
(* What is asked and not answered: in the channel or in a task.            *)

Out(c, b) == ToSet(c) \cup BagToSet(b)
Is(r, tag, number, list) == r.tag = tag /\ r.number = number /\ r.list = list
OutFor(c, b, tag, number, list) == {r \in Out(c, b) : Is(r, tag, number, list)}

(* It is asked once at most.                                               *)
Lone(c, b, tag, number, list) ==
  /\ \A i, j \in DOMAIN c : Is(c[i], tag, number, list) /\ Is(c[j], tag, number, list) => i = j
  /\ \A i \in DOMAIN c, r \in BagToSet(b) :
       ~(Is(c[i], tag, number, list) /\ Is(r, tag, number, list))
  /\ \A r, q \in BagToSet(b) : Is(r, tag, number, list) /\ Is(q, tag, number, list) => r = q
  /\ \A r \in BagToSet(b) : Is(r, tag, number, list) => b[r] = 1

Tags == {"search", "view", "library", "library_more", "lyrics", "favorite"}
Names == Tabs \cup Parts \cup {"all", "tracks", "top_tracks", "albums"}
Requests == [tag : Tags, number : Nat, of : Nat, list : Names, at : Nat]

MailGood(c, b) ==
  /\ c \in Seq(Requests)
  /\ b \in [BagToSet(b) -> Nat \ {0}] /\ BagToSet(b) \subseteq Requests

---------------------------------------------------------------------------
(* A list is of what it says, in order; the page on its way is the next    *)
(* one, and while there is one the list says so.                           *)

Rows == [of : Nat, list : Names, at : Nat]
Lists == [rows : Seq(Rows), total : Nat, loading : BOOLEAN]

PagedGood(list, tag, number, name, of, c, b) ==
  /\ ShowsInOrder(list, of, name)
  /\ Lone(c, b, tag, number, name)
  /\ \A r \in OutFor(c, b, tag, number, name) :
       r.of = of /\ r.at = Len(list.rows) /\ list.loading = TRUE

(* The search: no page is on its way while the answer to all of it is.     *)
Searches == [query : Nat, generation : Nat, phase : Phases, lists : [Tabs -> Lists]]

SearchGood(search, c, b) ==
  /\ search \in Searches
  /\ \A r \in Out(c, b) : r.tag = "search" =>
       r.number <= search.generation /\ r.list \in Tabs \cup {"all"}
  /\ Lone(c, b, "search", search.generation, "all")
  /\ \A r \in OutFor(c, b, "search", search.generation, "all") :
       /\ r.of = search.query /\ r.at = 0 /\ search.phase \in {"loading", "failed"}
       /\ \A t \in Tabs : search.lists[t].loading = FALSE
  /\ search.phase = "loading" => OutFor(c, b, "search", search.generation, "all") # {}
  /\ \A t \in Tabs :
       /\ PagedGood(search.lists[t], "search", search.generation, t, search.query, c, b)
       /\ search.lists[t].loading = TRUE => OutFor(c, b, "search", search.generation, t) # {}

(* A view: the same, it has nothing until then, and the pages of an artist *)
(* are its own.                                                            *)
ViewSet == [serial : Nat, kind : Kinds, phase : Phases \ {"none"},
            lists : UNION {[ListsOf(k) -> Lists] : k \in Kinds}]

OwnRows(list, of, name) ==
  \A i \in DOMAIN list.rows : list.rows[i].of = of /\ list.rows[i].list = name

ViewGood(v, c, b) ==
  /\ v \in ViewSet /\ DOMAIN v.lists = ListsOf(v.kind)
  /\ \A r \in Out(c, b) : r.tag = "view" /\ r.number = v.serial =>
       r.of = v.serial /\ r.list \in {"all"} \cup ListsOf(v.kind)
  /\ Lone(c, b, "view", v.serial, "all")
  /\ \A r \in OutFor(c, b, "view", v.serial, "all") :
       /\ r.at = 0 /\ v.phase \in {"loading", "failed"}
       /\ \A l \in ListsOf(v.kind) :
            v.lists[l] = NoList /\ OutFor(c, b, "view", v.serial, l) = {}
  /\ v.phase = "loading" => OutFor(c, b, "view", v.serial, "all") # {}
  /\ \A l \in ListsOf(v.kind) :
       /\ v.lists[l].loading = TRUE => OutFor(c, b, "view", v.serial, l) # {}
       /\ IF v.kind = "artist" THEN OwnRows(v.lists[l], v.serial, l)
          ELSE PagedGood(v.lists[l], "view", v.serial, l, v.serial, c, b)

ViewsGood(views, next, c, b) ==
  /\ views \in [Stacks -> Seq(ViewSet)]
  /\ \A s \in Stacks : \A i \in DOMAIN views[s] :
       views[s][i].serial < next /\ ViewGood(views[s][i], c, b)
  /\ \A s, t \in Stacks : \A i \in DOMAIN views[s], j \in DOMAIN views[t] :
       views[s][i].serial = views[t][j].serial => s = t /\ i = j
  /\ \A r \in Out(c, b) : r.tag = "view" => r.number < next

(* The library: each part is asked for apart.                              *)
PartSet == [phase : Phases, list : Lists]
Libraries == [generation : Nat, parts : [Parts -> PartSet]]

PartGood(part, p, number, c, b) ==
  /\ PagedGood(part.list, "library_more", number, p, None, c, b)
  /\ Lone(c, b, "library", number, p)
  /\ \A r \in OutFor(c, b, "library", number, p) :
       r.of = None /\ r.at = 0 /\ part.phase = "loading"
  /\ part.phase = "loading" =>
       /\ OutFor(c, b, "library", number, p) # {}
       /\ OutFor(c, b, "library_more", number, p) = {}

LibraryGood(library, c, b) ==
  /\ library \in Libraries
  /\ \A r \in Out(c, b) : r.tag \in {"library", "library_more"} =>
       r.number <= library.generation /\ r.list \in Parts
  /\ \A p \in Parts : PartGood(library.parts[p], p, library.generation, c, b)

(* The lyrics: an answer that is taken is of the track they are of.        *)
LyricsSet == [id : Nat, generation : Nat, phase : Phases, text : Nat]

LyricsGood(lyrics, last, c, b) ==
  /\ lyrics \in LyricsSet
  /\ lyrics.generation \in {last, last + 1}
  /\ lyrics.text \in {None, lyrics.id}
  /\ lyrics.phase = "loading" =>
       lyrics.generation = last /\ OutFor(c, b, "lyrics", last, "all") # {}
  /\ \A r \in Out(c, b) : r.tag = "lyrics" =>
       /\ r.number <= last /\ r.list = "all"
       /\ r.number = lyrics.generation => r.of = lyrics.id

States ==
  [connection : {"connecting", "connected", "disconnected", "refused"}, section : Sections,
   track : Nat, search : Searches, views : [Stacks -> Seq(ViewSet)], nextSerial : Nat,
   library : Libraries, lyrics : LyricsSet, lyricsGeneration : Nat]

Good(st, c, b) ==
  /\ st \in States /\ MailGood(c, b)
  /\ SearchGood(st.search, c, b)
  /\ ViewsGood(st.views, st.nextSerial, c, b)
  /\ LibraryGood(st.library, c, b)
  /\ LyricsGood(st.lyrics, st.lyricsGeneration, c, b)

(* The lyrics that are looked at are those of the track that plays.        *)
LyricsFollow(st) ==
  st.section = "lyrics" /\ st.connection = "connected" /\ st.track # None =>
    st.lyrics.id = st.track

LinkGood ==
  /\ link \in {"trying", "up", "waiting", "refused"} /\ retry \in BOOLEAN
  /\ news \in Seq({"connected", "disconnected", "refused"}) /\ Len(news) <= MaxNews
  /\ keys \in Nat /\ drops \in Nat

Inv == Good(state, channel, underway) /\ LyricsFollow(state) /\ LinkGood

---------------------------------------------------------------------------
(* What sending, answering and asking do to what is outstanding.           *)

(* For the requests with a tag, nothing changes.                           *)
Leaves(tag, c, b, d, e) ==
  \A n, l : /\ OutFor(d, e, tag, n, l) = OutFor(c, b, tag, n, l)
            /\ Lone(c, b, tag, n, l) => Lone(d, e, tag, n, l)

LEMMA LeavesOut ==
  ASSUME NEW tag, NEW c, NEW b, NEW d, NEW e, Leaves(tag, c, b, d, e), NEW r \in Out(d, e),
         r.tag = tag
  PROVE  r \in Out(c, b)
<1>1. r \in OutFor(d, e, tag, r.number, r.list)
  BY DEF OutFor, Is
<1>2. r \in OutFor(c, b, tag, r.number, r.list)
  BY <1>1 DEF Leaves
<1> QED BY <1>2 DEF OutFor

(* The first of the channel goes to a task.                                *)
LEMMA BagAddIs ==
  ASSUME NEW b, b \in [DOMAIN b -> Nat \ {0}], NEW x
  PROVE  /\ DOMAIN BagAdd(b, x) = DOMAIN b \cup {x}
         /\ BagAdd(b, x) \in [DOMAIN b \cup {x} -> Nat \ {0}]
         /\ \A r \in DOMAIN b : r # x => BagAdd(b, x)[r] = b[r]
         /\ x \notin DOMAIN b => BagAdd(b, x)[x] = 1
<1>1. CASE x \in DOMAIN b
  <2>1. BagAdd(b, x) = [f \in DOMAIN b |-> IF f = x THEN b[f] + 1 ELSE b[f]]
    BY <1>1 DEF BagAdd
  <2>2. DOMAIN b \cup {x} = DOMAIN b
    BY <1>1
  <2> QED BY <2>1, <2>2, <1>1
<1>2. CASE x \notin DOMAIN b
  <2>1. BagAdd(b, x) = [f \in DOMAIN b \cup {x} |-> IF f = x THEN 1 ELSE b[f]]
    BY <1>2 DEF BagAdd
  <2> QED BY <2>1, <1>2
<1> QED BY <1>1, <1>2

LEMMA BagRemoveIs ==
  ASSUME NEW b, b \in [DOMAIN b -> Nat \ {0}], NEW x \in DOMAIN b
  PROVE  /\ DOMAIN BagRemove(b, x) = IF b[x] = 1 THEN DOMAIN b \ {x} ELSE DOMAIN b
         /\ BagRemove(b, x) \in [DOMAIN BagRemove(b, x) -> Nat \ {0}]
         /\ \A r \in DOMAIN BagRemove(b, x) : r # x => BagRemove(b, x)[r] = b[r]
<1>1. CASE b[x] = 1
  <2>1. BagRemove(b, x) = [f \in DOMAIN b \ {x} |-> b[f]]
    BY <1>1 DEF BagRemove
  <2> QED BY <2>1, <1>1
<1>2. CASE b[x] # 1
  <2>1. BagRemove(b, x) = [f \in DOMAIN b |-> IF f = x THEN b[f] - 1 ELSE b[f]]
    BY <1>2 DEF BagRemove
  <2>2. b[x] \in Nat \ {0} /\ b[x] - 1 \in Nat \ {0}
    BY <1>2
  <2> QED BY <2>1, <2>2, <1>2
<1> QED BY <1>1, <1>2

LEMMA HeadAndTail ==
  ASSUME NEW S, NEW c \in Seq(S), c # <<>>
  PROVE  /\ Tail(c) \in Seq(S) /\ Head(c) \in S /\ 1 \in DOMAIN c /\ Head(c) = c[1]
         /\ \A i \in DOMAIN Tail(c) : i + 1 \in DOMAIN c /\ Tail(c)[i] = c[i + 1] /\ i + 1 # 1
         /\ \A i, j \in DOMAIN Tail(c) : i + 1 = j + 1 => i = j
         /\ \A i \in DOMAIN c : i # 1 => \E j \in DOMAIN Tail(c) : Tail(c)[j] = c[i]
<1>1. Len(c) \in Nat \ {0} /\ DOMAIN c = 1 .. Len(c)
  BY LenProperties, EmptySeq
<1>2. /\ Tail(c) \in Seq(S) /\ Len(Tail(c)) = Len(c) - 1 /\ Head(c) \in S
      /\ \A i \in 1 .. Len(Tail(c)) : Tail(c)[i] = c[i + 1]
  BY HeadTailProperties
<1>3. DOMAIN Tail(c) = 1 .. (Len(c) - 1)
  BY <1>2, LenProperties
<1>4. Head(c) = c[1]
  BY DEF Head
<1>5. ASSUME NEW i \in DOMAIN c, i # 1 PROVE \E j \in DOMAIN Tail(c) : Tail(c)[j] = c[i]
  <2>1. i - 1 \in DOMAIN Tail(c) /\ (i - 1) + 1 = i
    BY <1>1, <1>3, <1>5
  <2>2. Tail(c)[i - 1] = c[i]
    BY <2>1, <1>2, <1>3
  <2> QED BY <2>1, <2>2
<1>6. \A i \in DOMAIN Tail(c) : i + 1 \in DOMAIN c /\ i + 1 # 1
  BY <1>1, <1>3
<1>7. \A i, j \in DOMAIN Tail(c) : i + 1 = j + 1 => i = j
  BY <1>3
<1> QED BY <1>1, <1>2, <1>3, <1>4, <1>5, <1>6, <1>7

LEMMA SentOut ==
  ASSUME NEW c, NEW b, MailGood(c, b), c # <<>>
  PROVE  /\ MailGood(Tail(c), BagAdd(b, Head(c)))
         /\ Out(Tail(c), BagAdd(b, Head(c))) = Out(c, b)
         /\ \A tag : Leaves(tag, c, b, Tail(c), BagAdd(b, Head(c)))
<1> DEFINE d == Tail(c)
           x == Head(c)
           e == BagAdd(b, x)
<1>1. c \in Seq(Requests) /\ b \in [DOMAIN b -> Nat \ {0}] /\ DOMAIN b \subseteq Requests
  BY DEF MailGood, BagToSet
<1>2. /\ d \in Seq(Requests) /\ x \in Requests /\ 1 \in DOMAIN c /\ x = c[1]
      /\ \A i \in DOMAIN d : i + 1 \in DOMAIN c /\ d[i] = c[i + 1] /\ i + 1 # 1
      /\ \A i, j \in DOMAIN d : i + 1 = j + 1 => i = j
      /\ \A i \in DOMAIN c : i # 1 => \E j \in DOMAIN d : d[j] = c[i]
  BY <1>1, HeadAndTail
<1>3. /\ DOMAIN e = DOMAIN b \cup {x}
      /\ e \in [DOMAIN b \cup {x} -> Nat \ {0}]
      /\ \A r \in DOMAIN b : r # x => e[r] = b[r]
      /\ x \notin DOMAIN b => e[x] = 1
  BY <1>1, BagAddIs
<1> HIDE DEF d, x, e
<1>4. MailGood(d, e)
  BY <1>1, <1>2, <1>3 DEF MailGood, BagToSet
<1>5. Out(d, e) = Out(c, b)
  BY <1>2, <1>3 DEF Out, BagToSet, ToSet
<1>6. ASSUME NEW tag, NEW n, NEW l, Lone(c, b, tag, n, l) PROVE Lone(d, e, tag, n, l)
  <2>1. ASSUME NEW i \in DOMAIN d, NEW j \in DOMAIN d, Is(d[i], tag, n, l), Is(d[j], tag, n, l)
        PROVE  i = j
    BY <2>1, <1>2, <1>6 DEF Lone
  <2>2. ASSUME NEW i \in DOMAIN d, NEW r \in DOMAIN e, Is(d[i], tag, n, l), Is(r, tag, n, l)
        PROVE  FALSE
    <3>1. i + 1 \in DOMAIN c /\ Is(c[i + 1], tag, n, l) /\ i + 1 # 1
      BY <2>2, <1>2
    <3>2. CASE r \in DOMAIN b
      BY <3>1, <3>2, <2>2, <1>6 DEF Lone, BagToSet
    <3>3. CASE r = x
      BY <3>1, <3>3, <2>2, <1>2, <1>6 DEF Lone
    <3> QED BY <3>2, <3>3, <1>3
  <2>3. ASSUME NEW r \in DOMAIN e, NEW q \in DOMAIN e, Is(r, tag, n, l), Is(q, tag, n, l)
        PROVE  r = q
    <3>1. CASE r \in DOMAIN b /\ q \in DOMAIN b
      BY <3>1, <2>3, <1>6 DEF Lone, BagToSet
    <3>2. CASE r = x \/ q = x
      BY <3>2, <2>3, <1>2, <1>3, <1>6 DEF Lone, BagToSet
    <3> QED BY <3>1, <3>2, <1>3
  <2>4. ASSUME NEW r \in DOMAIN e, Is(r, tag, n, l) PROVE e[r] = 1
    <3>1. CASE r = x
      <4>1. x \notin DOMAIN b
        BY <3>1, <2>4, <1>2, <1>6 DEF Lone, BagToSet
      <4> QED BY <4>1, <3>1, <1>3
    <3>2. CASE r # x
      BY <3>2, <2>4, <1>3, <1>6 DEF Lone, BagToSet
    <3> QED BY <3>1, <3>2
  <2> QED BY <2>1, <2>2, <2>3, <2>4 DEF Lone, BagToSet
<1>7. \A tag : Leaves(tag, c, b, d, e)
  BY <1>5, <1>6 DEF Leaves, OutFor
<1> QED BY <1>4, <1>5, <1>7 DEF d, e, x

(* A request is answered: it was the only one of its kind if that is lone. *)
LEMMA AnsweredOut ==
  ASSUME NEW c, NEW b, MailGood(c, b), NEW x \in BagToSet(b)
  PROVE  LET e == BagRemove(b, x)
         IN  /\ MailGood(c, e)
             /\ x \in Requests /\ x \in Out(c, b)
             /\ Out(c, e) \subseteq Out(c, b) /\ Out(c, b) \subseteq Out(c, e) \cup {x}
             /\ \A tag, n, l : Lone(c, b, tag, n, l) =>
                  /\ Lone(c, e, tag, n, l)
                  /\ Is(x, tag, n, l) => OutFor(c, e, tag, n, l) = {}
             /\ \A tag, n, l : ~Is(x, tag, n, l) =>
                  OutFor(c, e, tag, n, l) = OutFor(c, b, tag, n, l)
             /\ \A tag : x.tag # tag => Leaves(tag, c, b, c, e)
<1> DEFINE e == BagRemove(b, x)
<1>1. c \in Seq(Requests) /\ b \in [DOMAIN b -> Nat \ {0}] /\ DOMAIN b \subseteq Requests
      /\ x \in DOMAIN b
  BY DEF MailGood, BagToSet
<1>2. /\ DOMAIN e = IF b[x] = 1 THEN DOMAIN b \ {x} ELSE DOMAIN b
      /\ e \in [DOMAIN e -> Nat \ {0}]
      /\ \A r \in DOMAIN e : r # x => e[r] = b[r]
  BY <1>1, BagRemoveIs
<1> HIDE DEF e
<1>3. DOMAIN e \subseteq DOMAIN b /\ DOMAIN b \subseteq DOMAIN e \cup {x}
  BY <1>1, <1>2
<1>4. MailGood(c, e)
  BY <1>1, <1>2, <1>3 DEF MailGood, BagToSet
<1>5. Out(c, e) \subseteq Out(c, b) /\ Out(c, b) \subseteq Out(c, e) \cup {x} /\ x \in Out(c, b)
  BY <1>1, <1>3 DEF Out, BagToSet
<1>6. ASSUME NEW tag, NEW n, NEW l, Lone(c, b, tag, n, l), Is(x, tag, n, l)
      PROVE  OutFor(c, e, tag, n, l) = {}
  <2>1. b[x] = 1 /\ x \notin DOMAIN e
    BY <1>1, <1>2, <1>6 DEF Lone, BagToSet
  <2>2. \A r \in DOMAIN e : ~Is(r, tag, n, l)
    BY <2>1, <1>1, <1>3, <1>6 DEF Lone, BagToSet
  <2>3. \A i \in DOMAIN c : ~Is(c[i], tag, n, l)
    BY <1>1, <1>6 DEF Lone, BagToSet
  <2> QED BY <2>2, <2>3 DEF OutFor, Out, BagToSet, ToSet
<1>7. ASSUME NEW tag, NEW n, NEW l, Lone(c, b, tag, n, l)
      PROVE  Lone(c, e, tag, n, l)
  <2>1. CASE Is(x, tag, n, l)
    <3>1. OutFor(c, e, tag, n, l) = {}
      BY <2>1, <1>6, <1>7
    <3> QED BY <3>1 DEF OutFor, Out, BagToSet, ToSet, Lone
  <2>2. CASE ~Is(x, tag, n, l)
    BY <2>2, <1>2, <1>3, <1>7 DEF Lone, BagToSet
  <2> QED BY <2>1, <2>2
<1>8. ASSUME NEW tag, NEW n, NEW l, ~Is(x, tag, n, l)
      PROVE  OutFor(c, e, tag, n, l) = OutFor(c, b, tag, n, l)
  BY <1>5, <1>8 DEF OutFor
<1>9. ASSUME NEW tag, x.tag # tag PROVE Leaves(tag, c, b, c, e)
  <2>1. \A n, l : ~Is(x, tag, n, l)
    BY <1>9 DEF Is
  <2> QED BY <2>1, <1>7, <1>8 DEF Leaves
<1> QED BY <1>1, <1>4, <1>5, <1>6, <1>7, <1>8, <1>9 DEF e

(* More is asked.                                                          *)
LEMMA JoinedElements ==
  ASSUME NEW S, NEW c \in Seq(S), NEW d \in Seq(S)
  PROVE  /\ c \o d \in Seq(S)
         /\ ToSet(c \o d) = ToSet(c) \cup ToSet(d)
         /\ \A i \in DOMAIN (c \o d) :
              \/ i \in DOMAIN c /\ (c \o d)[i] = c[i]
              \/ \E j \in DOMAIN d : i = Len(c) + j /\ (c \o d)[i] = d[j]
<1> DEFINE s == c \o d
<1>1. Len(c) \in Nat /\ DOMAIN c = 1 .. Len(c) /\ Len(d) \in Nat /\ DOMAIN d = 1 .. Len(d)
  BY LenProperties
<1>2. /\ s \in Seq(S) /\ Len(s) = Len(c) + Len(d)
      /\ \A i \in 1 .. (Len(c) + Len(d)) : s[i] = IF i <= Len(c) THEN c[i] ELSE d[i - Len(c)]
  BY JoinedProperties
<1>3. DOMAIN s = 1 .. (Len(c) + Len(d))
  BY <1>2, LenProperties
<1> HIDE DEF s
<1>4. ASSUME NEW i \in DOMAIN s
      PROVE  \/ i \in DOMAIN c /\ s[i] = c[i]
             \/ \E j \in DOMAIN d : i = Len(c) + j /\ s[i] = d[j]
  <2>1. CASE i <= Len(c)
    BY <2>1, <1>1, <1>2, <1>3
  <2>2. CASE ~(i <= Len(c))
    <3>1. i - Len(c) \in DOMAIN d /\ i = Len(c) + (i - Len(c))
      BY <2>2, <1>1, <1>3
    <3>2. s[i] = d[i - Len(c)]
      BY <2>2, <1>2, <1>3
    <3> QED BY <3>1, <3>2
  <2> QED BY <2>1, <2>2
<1>5. ASSUME NEW i \in DOMAIN c PROVE c[i] \in ToSet(s)
  <2>1. i \in DOMAIN s /\ s[i] = c[i]
    BY <1>1, <1>2, <1>3
  <2> QED BY <2>1 DEF ToSet
<1>6. ASSUME NEW j \in DOMAIN d PROVE d[j] \in ToSet(s)
  <2>1. Len(c) + j \in DOMAIN s /\ ~(Len(c) + j <= Len(c)) /\ (Len(c) + j) - Len(c) = j
    BY <1>1, <1>3
  <2>2. s[Len(c) + j] = d[j]
    BY <2>1, <1>2, <1>3
  <2> QED BY <2>1, <2>2 DEF ToSet
<1>7. ToSet(s) = ToSet(c) \cup ToSet(d)
  BY <1>4, <1>5, <1>6 DEF ToSet
<1> QED BY <1>2, <1>4, <1>7 DEF s

LEMMA AskedOut ==
  ASSUME NEW c, NEW b, MailGood(c, b), NEW s \in Seq(Requests)
  PROVE  /\ MailGood(c \o s, b)
         /\ Out(c \o s, b) = Out(c, b) \cup ToSet(s)
         /\ \A tag, n, l : (\A x \in ToSet(s) : ~Is(x, tag, n, l)) =>
              /\ OutFor(c \o s, b, tag, n, l) = OutFor(c, b, tag, n, l)
              /\ Lone(c, b, tag, n, l) => Lone(c \o s, b, tag, n, l)
         /\ \A tag, n, l :
              /\ OutFor(c, b, tag, n, l) = {}
              /\ \A i, j \in DOMAIN s : Is(s[i], tag, n, l) /\ Is(s[j], tag, n, l) => i = j
              => Lone(c \o s, b, tag, n, l)
         /\ \A tag : (\A x \in ToSet(s) : x.tag # tag) => Leaves(tag, c, b, c \o s, b)
<1> DEFINE d == c \o s
<1>1. c \in Seq(Requests) /\ b \in [DOMAIN b -> Nat \ {0}] /\ DOMAIN b \subseteq Requests
  BY DEF MailGood, BagToSet
<1>2. /\ d \in Seq(Requests)
      /\ ToSet(d) = ToSet(c) \cup ToSet(s)
      /\ \A i \in DOMAIN d :
           \/ i \in DOMAIN c /\ d[i] = c[i]
           \/ \E j \in DOMAIN s : i = Len(c) + j /\ d[i] = s[j]
  BY <1>1, JoinedElements
<1> HIDE DEF d
<1>3. MailGood(d, b)
  BY <1>1, <1>2 DEF MailGood, BagToSet
<1>4. Out(d, b) = Out(c, b) \cup ToSet(s)
  BY <1>2 DEF Out
<1>5. ASSUME NEW tag, NEW n, NEW l, \A x \in ToSet(s) : ~Is(x, tag, n, l)
      PROVE  /\ OutFor(d, b, tag, n, l) = OutFor(c, b, tag, n, l)
             /\ Lone(c, b, tag, n, l) => Lone(d, b, tag, n, l)
  <2>1. OutFor(d, b, tag, n, l) = OutFor(c, b, tag, n, l)
    BY <1>4, <1>5 DEF OutFor
  <2>2. \A i \in DOMAIN d : Is(d[i], tag, n, l) => i \in DOMAIN c /\ d[i] = c[i]
    <3>1. \A j \in DOMAIN s : ~Is(s[j], tag, n, l)
      BY <1>5 DEF ToSet
    <3> QED BY <3>1, <1>2
  <2>3. Lone(c, b, tag, n, l) => Lone(d, b, tag, n, l)
    BY <2>2 DEF Lone
  <2> QED BY <2>1, <2>3
<1>6. ASSUME NEW tag, NEW n, NEW l, OutFor(c, b, tag, n, l) = {},
             \A i, j \in DOMAIN s : Is(s[i], tag, n, l) /\ Is(s[j], tag, n, l) => i = j
      PROVE  Lone(d, b, tag, n, l)
  <2>1. \A i \in DOMAIN c : ~Is(c[i], tag, n, l)
    BY <1>6 DEF OutFor, Out, ToSet
  <2>2. \A r \in DOMAIN b : ~Is(r, tag, n, l)
    BY <1>6 DEF OutFor, Out, BagToSet
  <2>3. \A i \in DOMAIN d : Is(d[i], tag, n, l) =>
          \E j \in DOMAIN s : i = Len(c) + j /\ Is(s[j], tag, n, l)
    BY <2>1, <1>2
  <2> QED BY <2>2, <2>3, <1>6 DEF Lone, BagToSet
<1>7. ASSUME NEW tag, \A x \in ToSet(s) : x.tag # tag PROVE Leaves(tag, c, b, d, b)
  <2>1. \A n, l : \A x \in ToSet(s) : ~Is(x, tag, n, l)
    BY <1>7 DEF Is
  <2> QED BY <2>1, <1>5 DEF Leaves
<1> QED BY <1>3, <1>4, <1>5, <1>6, <1>7 DEF d

LEMMA AskedIsOut ==
  ASSUME NEW c, NEW b, MailGood(c, b), NEW s \in Seq(Requests)
  PROVE  Out(c \o s, b) = Out(c, b) \cup ToSet(s)
BY AskedOut

---------------------------------------------------------------------------
(* A list, and the page of it that is on its way.                          *)

LEMMA NoneIsLone ==
  ASSUME NEW c, NEW b, NEW tag, NEW n, NEW l, OutFor(c, b, tag, n, l) = {}
  PROVE  Lone(c, b, tag, n, l)
<1>1. \A i \in DOMAIN c : ~Is(c[i], tag, n, l)
  BY DEF OutFor, Out, ToSet
<1>2. \A r \in BagToSet(b) : ~Is(r, tag, n, l)
  BY DEF OutFor, Out
<1> QED BY <1>1, <1>2 DEF Lone

LEMMA PageBuilt ==
  ASSUME NEW r \in Requests, NEW name \in Names, NEW result
  PROVE  Page(r, name, result) \in Seq(Rows)
<1>1. r.of \in Nat /\ r.at \in Nat
  BY DEF Requests
<1>2. [of |-> r.of, list |-> name, at |-> r.at] \in Rows
  BY <1>1 DEF Rows
<1> HIDE DEF Rows
<1> QED BY <1>2 DEF Page

LEMMA FirstBuilt ==
  ASSUME NEW r \in Requests, NEW name \in Names, NEW result
  PROVE  /\ FromPage(Page(r, name, result)) \in Lists
         /\ FromPage(Page(r, name, result)).loading = FALSE
<1> DEFINE page == Page(r, name, result)
<1>1. page \in Seq(Rows)
  BY PageBuilt
<1>2. (IF page = <<>> THEN 0 ELSE Pages) \in Nat
  BY TuiAssumption
<1> HIDE DEF page
<1>3. FromPage(page) \in Lists /\ FromPage(page).loading = FALSE
  BY <1>1, <1>2, Zenon DEF FromPage, Lists
<1> QED BY <1>3 DEF page

LEMMA GrownBuilt ==
  ASSUME NEW list \in Lists, NEW r \in Requests, NEW name \in Names, NEW result
  PROVE  /\ Grown(list, Page(r, name, result)) \in Lists
         /\ Grown(list, Page(r, name, result)).loading = FALSE
<1> DEFINE page == Page(r, name, result)
<1>1. page \in Seq(Rows)
  BY PageBuilt
<1>2. list.rows \in Seq(Rows)
  BY DEF Lists
<1>3. (IF page = <<>> THEN Len(list.rows) ELSE Pages) \in Nat
  BY <1>2, LenProperties, TuiAssumption
<1>4. list.rows \o page \in Seq(Rows)
  BY <1>1, <1>2, ConcatProperties
<1> HIDE DEF page
<1>5. Grown(list, page) \in Lists /\ Grown(list, page).loading = FALSE
  BY <1>3, <1>4, Zenon DEF Grown, Lists
<1> QED BY <1>5 DEF page

LEMMA NoListBuilt == NoList \in Lists /\ NoList.loading = FALSE /\ NoList.rows = <<>>
<1>1. <<>> \in Seq(Rows)
  OBVIOUS
<1> QED BY <1>1 DEF NoList, Lists

LEMMA FlagBuilt ==
  ASSUME NEW list \in Lists, NEW flag \in BOOLEAN
  PROVE  /\ [list EXCEPT !.loading = flag] \in Lists
         /\ [list EXCEPT !.loading = flag].loading = flag
         /\ [list EXCEPT !.loading = flag].rows = list.rows
BY Zenon DEF Lists

(* The rows of a list, one more at its end.                                *)
LEMMA PageRows ==
  ASSUME NEW r, NEW name, NEW result
  PROVE  /\ Page(r, name, result) = <<>>
            \/ Page(r, name, result) = <<[of |-> r.of, list |-> name, at |-> r.at]>>
         /\ FromPage(Page(r, name, result)).rows = Page(r, name, result)
BY DEF Page, FromPage

LEMMA FirstInOrder ==
  ASSUME NEW r, r.at = 0, NEW name, NEW result
  PROVE  /\ ShowsInOrder(FromPage(Page(r, name, result)), r.of, name)
         /\ \A of : ShowsInOrder(NoList, of, name)
<1>1. ASSUME Page(r, name, result) = <<>>
      PROVE  ShowsInOrder(FromPage(Page(r, name, result)), r.of, name)
  BY <1>1, PageRows DEF ShowsInOrder
<1>2. ASSUME Page(r, name, result) = <<[of |-> r.of, list |-> name, at |-> r.at]>>
      PROVE  ShowsInOrder(FromPage(Page(r, name, result)), r.of, name)
  <2> DEFINE row == [of |-> r.of, list |-> name, at |-> r.at]
  <2>1. DOMAIN <<row>> = {1} /\ <<row>>[1] = row /\ row.at = 1 - 1
    OBVIOUS
  <2> QED BY <2>1, <1>2, PageRows DEF ShowsInOrder
<1> QED BY <1>1, <1>2, PageRows DEF ShowsInOrder, NoList

LEMMA GrownInOrder ==
  ASSUME NEW list \in Lists, NEW of, NEW name \in Names, ShowsInOrder(list, of, name),
         NEW r \in Requests, r.of = of, r.at = Len(list.rows), NEW result
  PROVE  ShowsInOrder(Grown(list, Page(r, name, result)), of, name)
<1> DEFINE page == Page(r, name, result)
           row == [of |-> r.of, list |-> name, at |-> r.at]
           all == list.rows \o page
<1>1. list.rows \in Seq(Rows) /\ Len(list.rows) \in Nat
  <2>1. list.rows \in Seq(Rows)
    BY DEF Lists
  <2> QED BY <2>1, LenProperties
<1>2. page \in Seq(Rows)
  BY PageBuilt
<1>3. Grown(list, page).rows = all
  BY DEF Grown
<1>4. \A i \in DOMAIN all : \/ i \in DOMAIN list.rows /\ all[i] = list.rows[i]
                            \/ \E j \in DOMAIN page : i = Len(list.rows) + j /\ all[i] = page[j]
  BY <1>1, <1>2, JoinedElements
<1>5. \A j \in DOMAIN page : j = 1 /\ page[j] = row
  <2>1. page = <<>> \/ page = <<row>>
    BY PageRows
  <2> HIDE DEF page, row
  <2> QED BY <2>1
<1> HIDE DEF page, all
<1>6. ASSUME NEW i \in DOMAIN all PROVE all[i] = [of |-> of, list |-> name, at |-> i - 1]
  <2>1. CASE i \in DOMAIN list.rows /\ all[i] = list.rows[i]
    BY <2>1 DEF ShowsInOrder
  <2>2. CASE i = Len(list.rows) + 1 /\ all[i] = row
    BY <2>2, <1>1
  <2> QED BY <2>1, <2>2, <1>4, <1>5
<1> QED BY <1>3, <1>6 DEF ShowsInOrder, page

LEMMA PagedKept ==
  ASSUME NEW list, NEW tag, NEW n, NEW name, NEW of, NEW c, NEW b, NEW d, NEW e,
         PagedGood(list, tag, n, name, of, c, b),
         OutFor(d, e, tag, n, name) = OutFor(c, b, tag, n, name), Lone(d, e, tag, n, name)
  PROVE  PagedGood(list, tag, n, name, of, d, e)
BY DEF PagedGood

(* With no page on its way it only has to show what it is of.              *)
LEMMA PagedIdle ==
  ASSUME NEW list, NEW tag, NEW n, NEW name, NEW of, NEW c, NEW b,
         ShowsInOrder(list, of, name), OutFor(c, b, tag, n, name) = {}
  PROVE  PagedGood(list, tag, n, name, of, c, b)
BY NoneIsLone DEF PagedGood

LEMMA NotLoadingIdle ==
  ASSUME NEW list, NEW tag, NEW n, NEW name, NEW of, NEW c, NEW b,
         PagedGood(list, tag, n, name, of, c, b), ~(list.loading = TRUE)
  PROVE  OutFor(c, b, tag, n, name) = {}
BY DEF PagedGood

(* A page comes, or fails.                                                 *)
LEMMA PagedAnswered ==
  ASSUME NEW list \in Lists, NEW tag, NEW n, NEW name \in Names, NEW of, NEW c, NEW b,
         MailGood(c, b), NEW x \in BagToSet(b), Is(x, tag, n, name),
         PagedGood(list, tag, n, name, of, c, b), NEW result
  PROVE  LET e == BagRemove(b, x)
         IN  /\ PagedGood(Grown(list, Page(x, name, result)), tag, n, name, of, c, e)
             /\ PagedGood([list EXCEPT !.loading = FALSE], tag, n, name, of, c, e)
             /\ OutFor(c, e, tag, n, name) = {}
<1> DEFINE e == BagRemove(b, x)
<1>1. x \in Requests /\ x \in Out(c, b)
  BY AnsweredOut
<1>2. Lone(c, b, tag, n, name) /\ ShowsInOrder(list, of, name)
  BY DEF PagedGood
<1>3. OutFor(c, e, tag, n, name) = {}
  BY <1>2, AnsweredOut
<1>4. x.of = of /\ x.at = Len(list.rows)
  BY <1>1 DEF PagedGood, OutFor
<1> HIDE DEF e
<1>5. ShowsInOrder(Grown(list, Page(x, name, result)), of, name)
  BY <1>1, <1>2, <1>4, GrownInOrder
<1>6. ShowsInOrder([list EXCEPT !.loading = FALSE], of, name)
  <2>1. [list EXCEPT !.loading = FALSE].rows = list.rows
    BY Zenon DEF Lists
  <2> QED BY <2>1, <1>2 DEF ShowsInOrder
<1> QED BY <1>3, <1>5, <1>6, PagedIdle DEF e

(* The next page is asked for.                                             *)
LEMMA PagedAsked ==
  ASSUME NEW list \in Lists, NEW tag \in Tags, NEW n \in Nat, NEW name \in Names, NEW of \in Nat,
         NEW c, NEW b, MailGood(c, b), PagedGood(list, tag, n, name, of, c, b),
         OutFor(c, b, tag, n, name) = {},
         NEW s, s = <<Request(tag, n, of, name, Len(list.rows))>>
  PROVE  /\ PagedGood([list EXCEPT !.loading = TRUE], tag, n, name, of, c \o s, b)
         /\ OutFor(c \o s, b, tag, n, name) # {}
<1> DEFINE x == Request(tag, n, of, name, Len(list.rows))
<1>1. Len(list.rows) \in Nat
  <2>1. list.rows \in Seq(Rows)
    BY DEF Lists
  <2> QED BY <2>1, LenProperties
<1>2. x \in Requests /\ Is(x, tag, n, name) /\ x.of = of /\ x.at = Len(list.rows)
  BY <1>1 DEF Request, Requests, Is
<1> HIDE DEF x
<1>3. s = <<x>>
  BY DEF x
<1>4. s \in Seq(Requests) /\ ToSet(s) = {x} /\ \A i, j \in DOMAIN s : i = j
  BY <1>2, <1>3 DEF ToSet
<1>5. OutFor(c \o s, b, tag, n, name) = {x}
  <2>0. s \in Seq(Requests)
    BY <1>4
  <2>1. Out(c \o s, b) = Out(c, b) \cup ToSet(s)
    BY <2>0, AskedIsOut
  <2> QED BY <2>1, <1>2, <1>4 DEF OutFor
<1>6. Lone(c \o s, b, tag, n, name)
  <2>1. \A i, j \in DOMAIN s : Is(s[i], tag, n, name) /\ Is(s[j], tag, n, name) => i = j
    BY <1>4
  <2> QED BY <2>1, <1>4, AskedOut
<1>7. [list EXCEPT !.loading = TRUE].rows = list.rows /\ [list EXCEPT !.loading = TRUE].loading = TRUE
  BY Zenon DEF Lists
<1> QED BY <1>2, <1>5, <1>6, <1>7 DEF PagedGood, ShowsInOrder

---------------------------------------------------------------------------
(* The search.                                                             *)

LEMMA SearchRecord ==
  ASSUME NEW x \in Searches, NEW ls
  PROVE  [x EXCEPT !.lists = ls]
            = [query |-> x.query, generation |-> x.generation, phase |-> x.phase, lists |-> ls]
BY DEF Searches

LEMMA BegunRecord ==
  ASSUME NEW x \in Searches, NEW query \in Nat
  PROVE  LET y == Begun(x, query)
         IN  /\ y \in Searches
             /\ y.query = query /\ y.generation = x.generation + 1 /\ y.phase = "loading"
             /\ \A t \in Tabs : y.lists[t] = NoList
<1> DEFINE lists == [t \in Tabs |-> NoList]
           y == [x EXCEPT !.query = query, !.generation = x.generation + 1, !.phase = "loading",
                          !.lists = lists]
<1>1. Begun(x, query) = y
  BY DEF Begun
<1>2. lists \in [Tabs -> Lists] /\ \A t \in Tabs : lists[t] = NoList
  BY NoListBuilt
<1>3. x.generation + 1 \in Nat /\ "loading" \in Phases
  BY DEF Searches, Phases
<1> HIDE DEF lists
<1>4. y.query = query /\ y.generation = x.generation + 1 /\ y.phase = "loading" /\ y.lists = lists
  BY DEF Searches
<1>5. y \in Searches
  BY <1>2, <1>3 DEF Searches
<1> HIDE DEF y
<1> QED BY <1>1, <1>2, <1>4, <1>5

LEMMA SearchKept ==
  ASSUME NEW x, NEW c, NEW b, NEW d, NEW e, SearchGood(x, c, b), Leaves("search", c, b, d, e)
  PROVE  SearchGood(x, d, e)
<1> DEFINE g == x.generation
<1>1. /\ x \in Searches
      /\ \A r \in Out(c, b) : r.tag = "search" => r.number <= g /\ r.list \in Tabs \cup {"all"}
      /\ Lone(c, b, "search", g, "all")
      /\ \A r \in OutFor(c, b, "search", g, "all") :
           /\ r.of = x.query /\ r.at = 0 /\ x.phase \in {"loading", "failed"}
           /\ \A t \in Tabs : x.lists[t].loading = FALSE
      /\ x.phase = "loading" => OutFor(c, b, "search", g, "all") # {}
      /\ \A t \in Tabs : /\ PagedGood(x.lists[t], "search", g, t, x.query, c, b)
                         /\ x.lists[t].loading = TRUE => OutFor(c, b, "search", g, t) # {}
  BY DEF SearchGood
<1>2. \A r \in Out(d, e) : r.tag = "search" => r.number <= g /\ r.list \in Tabs \cup {"all"}
  BY <1>1, LeavesOut
<1>3. \A l : OutFor(d, e, "search", g, l) = OutFor(c, b, "search", g, l)
  BY DEF Leaves
<1>4. \A l : Lone(c, b, "search", g, l) => Lone(d, e, "search", g, l)
  BY DEF Leaves
<1>5. \A t \in Tabs : PagedGood(x.lists[t], "search", g, t, x.query, d, e)
  <2>1. TAKE t \in Tabs
  <2>2. PagedGood(x.lists[t], "search", g, t, x.query, c, b) /\ Lone(c, b, "search", g, t)
    BY <1>1 DEF PagedGood
  <2> QED BY <2>2, <1>3, <1>4, PagedKept
<1> QED BY <1>1, <1>2, <1>3, <1>4, <1>5 DEF SearchGood

(* What was searched for is answered.                                      *)
LEMMA SearchAnsweredWell ==
  ASSUME NEW x, NEW c, NEW b, SearchGood(x, c, b), MailGood(c, b),
         NEW r \in BagToSet(b), r.tag = "search", NEW result
  PROVE  SearchGood(SearchAnswered(x, r, result), c, BagRemove(b, r))
<1> DEFINE e == BagRemove(b, r)
           g == x.generation
           y == SearchAnswered(x, r, result)
<1>1. /\ x \in Searches
      /\ \A q \in Out(c, b) : q.tag = "search" => q.number <= g /\ q.list \in Tabs \cup {"all"}
      /\ Lone(c, b, "search", g, "all")
      /\ \A q \in OutFor(c, b, "search", g, "all") :
           /\ q.of = x.query /\ q.at = 0 /\ x.phase \in {"loading", "failed"}
           /\ \A t \in Tabs : x.lists[t].loading = FALSE
      /\ x.phase = "loading" => OutFor(c, b, "search", g, "all") # {}
      /\ \A t \in Tabs : /\ PagedGood(x.lists[t], "search", g, t, x.query, c, b)
                         /\ x.lists[t].loading = TRUE => OutFor(c, b, "search", g, t) # {}
  BY DEF SearchGood
<1>2. /\ r \in Requests /\ r \in Out(c, b) /\ Out(c, e) \subseteq Out(c, b)
      /\ \A l : Lone(c, b, "search", g, l) =>
           Lone(c, e, "search", g, l) /\ (Is(r, "search", g, l) => OutFor(c, e, "search", g, l) = {})
      /\ \A l : ~Is(r, "search", g, l) =>
           OutFor(c, e, "search", g, l) = OutFor(c, b, "search", g, l)
  BY AnsweredOut
<1>3. /\ g \in Nat /\ x.query \in Nat /\ x.phase \in Phases /\ x.lists \in [Tabs -> Lists]
      /\ x = [query |-> x.query, generation |-> g, phase |-> x.phase, lists |-> x.lists]
  BY <1>1 DEF Searches
<1>4. r.list \in Tabs \cup {"all"} /\ r.of \in Nat /\ r.at \in Nat /\ r.number \in Nat
  BY <1>1, <1>2 DEF Requests
<1>5. \A q \in Out(c, e) : q.tag = "search" => q.number <= g /\ q.list \in Tabs \cup {"all"}
  BY <1>1, <1>2
<1>6. \A t \in Tabs : Lone(c, b, "search", g, t)
  BY <1>1 DEF PagedGood
<1>7. \A t \in Tabs : ~Is(r, "search", g, t) =>
        /\ PagedGood(x.lists[t], "search", g, t, x.query, c, e)
        /\ x.lists[t].loading = TRUE => OutFor(c, e, "search", g, t) # {}
  BY <1>1, <1>2, <1>6, PagedKept
<1> HIDE DEF e
<1>8. CASE r.number # g
  <2>1. y = x
    BY <1>8 DEF SearchAnswered
  <2>2. \A l : ~Is(r, "search", g, l)
    BY <1>8 DEF Is
  <2>3. Lone(c, e, "search", g, "all")
    BY <1>1, <1>2
  <2> QED BY <2>1, <2>2, <2>3, <1>1, <1>2, <1>5, <1>7 DEF SearchGood, e
<1>9. CASE r.number = g /\ r.list \in Tabs
  <2> DEFINE t == r.list
             closed == [x.lists[t] EXCEPT !.loading = FALSE]
             grown == Grown(x.lists[t], Page(r, t, result))
             list == IF result = "error" THEN closed ELSE grown
             lists == [x.lists EXCEPT ![t] = list]
  <2>1. Is(r, "search", g, t) /\ (\A u \in Tabs : u # t => ~Is(r, "search", g, u))
        /\ ~Is(r, "search", g, "all")
    BY <1>9, TuiAssumption DEF Is
  <2>2. x.lists[t] \in Lists /\ t \in Names
    BY <1>3, <1>9 DEF Names
  <2>3. list \in Lists /\ list.loading = FALSE
    <3>1. closed \in Lists /\ closed.loading = FALSE
      BY <2>2, Zenon DEF Lists
    <3>2. grown \in Lists /\ grown.loading = FALSE
      BY <2>2, <1>2, GrownBuilt
    <3> QED BY <3>1, <3>2
  <2>4. PagedGood(list, "search", g, t, x.query, c, e)
    <3>1. PagedGood(x.lists[t], "search", g, t, x.query, c, b)
      BY <1>1, <1>9
    <3>2. PagedGood(grown, "search", g, t, x.query, c, e) /\ PagedGood(closed, "search", g, t, x.query, c, e)
      BY <3>1, <2>1, <2>2, PagedAnswered DEF e
    <3> QED BY <3>2
  <2>5. y = [query |-> x.query, generation |-> g, phase |-> x.phase, lists |-> lists]
    BY <1>3, <1>9 DEF SearchAnswered, SearchFilled
  <2> HIDE DEF list
  <2>6. lists \in [Tabs -> Lists] /\ lists[t] = list /\ \A u \in Tabs : u # t => lists[u] = x.lists[u]
    BY <1>3, <1>9, <2>3
  <2> HIDE DEF lists, y
  <2>7. \A u \in Tabs : /\ PagedGood(lists[u], "search", g, u, x.query, c, e)
                        /\ lists[u].loading = TRUE => OutFor(c, e, "search", g, u) # {}
    BY <2>1, <2>3, <2>4, <2>6, <1>7
  <2>8. y \in Searches
    BY <2>5, <2>6, <1>3 DEF Searches
  <2>9. \A u \in Tabs : x.lists[u].loading = FALSE => lists[u].loading = FALSE
    BY <2>3, <2>6
  <2>10. Lone(c, e, "search", g, "all")
         /\ OutFor(c, e, "search", g, "all") = OutFor(c, b, "search", g, "all")
    BY <1>1, <1>2, <2>1
  <2> QED BY <2>5, <2>7, <2>8, <2>9, <2>10, <1>1, <1>5 DEF SearchGood, y, e
<1>10. CASE r.number = g /\ r.list \notin Tabs
  <2>1. Is(r, "search", g, "all") /\ r \in OutFor(c, b, "search", g, "all")
    BY <1>10, <1>2, <1>4 DEF Is, OutFor
  <2>2. /\ r.of = x.query /\ r.at = 0 /\ OutFor(c, e, "search", g, "all") = {}
        /\ Lone(c, e, "search", g, "all") /\ \A t \in Tabs : x.lists[t].loading = FALSE
    BY <2>1, <1>1, <1>2
  <2>3. \A t \in Tabs : ~Is(r, "search", g, t)
    BY <1>10 DEF Is
  <2>4. \A t \in Tabs : OutFor(c, e, "search", g, t) = {}
    <3>1. TAKE t \in Tabs
    <3>2. ~(x.lists[t].loading = TRUE) /\ PagedGood(x.lists[t], "search", g, t, x.query, c, e)
      BY <2>2, <2>3, <1>7
    <3> QED BY <3>2, NotLoadingIdle
  <2>5. CASE result = "error"
    <3>1. y = [query |-> x.query, generation |-> g, phase |-> "failed", lists |-> x.lists]
      BY <1>3, <1>10, <2>5 DEF SearchAnswered, SearchFilled
    <3> HIDE DEF y
    <3>2. y \in Searches
      BY <3>1, <1>3 DEF Searches, Phases
    <3> QED BY <3>1, <3>2, <2>2, <2>3, <1>1, <1>5, <1>7 DEF SearchGood, y, e
  <2>6. CASE result # "error"
    <3> DEFINE lists == [t \in Tabs |-> FromPage(Page(r, t, result))]
    <3>1. y = [query |-> x.query, generation |-> g, phase |-> "done", lists |-> lists]
      BY <1>3, <1>10, <2>6 DEF SearchAnswered, SearchFilled
    <3>2. \A t \in Tabs : /\ FromPage(Page(r, t, result)) \in Lists
                          /\ FromPage(Page(r, t, result)).loading = FALSE
                          /\ ShowsInOrder(FromPage(Page(r, t, result)), x.query, t)
      <4>1. TAKE t \in Tabs
      <4>2. t \in Names /\ x.lists[t] \in Lists
        BY <1>3 DEF Names
      <4>3. /\ FromPage(Page(r, t, result)) \in Lists
            /\ FromPage(Page(r, t, result)).loading = FALSE
        BY <4>2, <1>2, FirstBuilt
      <4>4. ShowsInOrder(FromPage(Page(r, t, result)), r.of, t)
        BY <2>2, FirstInOrder, Zenon
      <4> QED BY <4>3, <4>4, <2>2
    <3>3. \A t \in Tabs : lists[t].loading = FALSE /\ ShowsInOrder(lists[t], x.query, t)
      BY <3>2
    <3>4. lists \in [Tabs -> Lists]
      BY <3>2
    <3> HIDE DEF y, lists
    <3>5. y \in Searches
      BY <3>1, <3>4, <1>3 DEF Searches, Phases
    <3>6. \A t \in Tabs : PagedGood(lists[t], "search", g, t, x.query, c, e)
      BY <3>3, <2>4, PagedIdle
    <3> QED BY <3>1, <3>3, <3>5, <3>6, <2>2, <1>1, <1>5 DEF SearchGood, y, e
  <2> QED BY <2>5, <2>6
<1> QED BY <1>8, <1>9, <1>10

LEMMA NoneAsked ==
  ASSUME NEW c, NEW b, NEW tag, NEW n \in Nat, NEW m \in Nat, m < n, MailGood(c, b),
         \A r \in Out(c, b) : r.tag = tag => r.number <= m
  PROVE  \A l : OutFor(c, b, tag, n, l) = {}
<1>1. Out(c, b) \subseteq Requests
  BY DEF MailGood, Out, ToSet, BagToSet
<1>2. \A r \in Out(c, b) : r.number \in Nat
  BY <1>1 DEF Requests
<1>3. \A r \in Out(c, b) : r.tag = tag => r.number # n
  BY <1>2
<1> QED BY <1>3 DEF OutFor, Is

(* It is given up, with whatever answer was on its way.                    *)
LEMMA SearchLostWell ==
  ASSUME NEW x, NEW c, NEW b, SearchGood(x, c, b), MailGood(c, b)
  PROVE  SearchGood(SearchLost(x), c, b)
<1> DEFINE g == x.generation
           y == SearchLost(x)
<1>1. /\ x \in Searches
      /\ \A q \in Out(c, b) : q.tag = "search" => q.number <= g /\ q.list \in Tabs \cup {"all"}
      /\ \A q \in OutFor(c, b, "search", g, "all") : \A t \in Tabs : x.lists[t].loading = FALSE
      /\ x.phase = "loading" => OutFor(c, b, "search", g, "all") # {}
      /\ \A t \in Tabs : ShowsInOrder(x.lists[t], x.query, t)
  BY DEF SearchGood, PagedGood
<1>2. CASE x.phase # "loading"
  BY <1>2 DEF SearchLost
<1>3. CASE x.phase = "loading"
  <2>1. g \in Nat /\ g + 1 \in Nat /\ g < g + 1 /\ x.query \in Nat /\ x.lists \in [Tabs -> Lists]
    BY <1>1 DEF Searches
  <2>2. y = [query |-> x.query, generation |-> g + 1, phase |-> "failed", lists |-> x.lists]
    BY <1>1, <1>3 DEF SearchLost, Searches
  <2>3. \A l : OutFor(c, b, "search", g + 1, l) = {}
    BY <1>1, <2>1, NoneAsked
  <2>4. \A t \in Tabs : x.lists[t].loading = FALSE
    BY <1>1, <1>3
  <2>5. \A q \in Out(c, b) : q.tag = "search" => q.number <= g + 1 /\ q.list \in Tabs \cup {"all"}
    <3>1. Out(c, b) \subseteq Requests
      BY DEF MailGood, Out, ToSet, BagToSet
    <3>2. \A q \in Out(c, b) : q.number \in Nat
      BY <3>1 DEF Requests
    <3> QED BY <3>2, <1>1, <2>1
  <2>6. \A t \in Tabs : PagedGood(x.lists[t], "search", g + 1, t, x.query, c, b)
    BY <1>1, <2>3, PagedIdle
  <2>7. Lone(c, b, "search", g + 1, "all")
    BY <2>3, NoneIsLone
  <2> HIDE DEF y
  <2>8. y \in Searches
    BY <2>1, <2>2 DEF Searches, Phases
  <2> QED BY <2>2, <2>3, <2>4, <2>5, <2>6, <2>7, <2>8 DEF SearchGood, y
<1> QED BY <1>2, <1>3

(* Without a connection only the failure is shown.                         *)
LEMMA SearchFailedWell ==
  ASSUME NEW x, NEW c, NEW b, SearchGood(x, c, b)
  PROVE  SearchGood([x EXCEPT !.phase = "failed"], c, b)
<1> DEFINE y == [x EXCEPT !.phase = "failed"]
<1>1. /\ y \in Searches /\ y.query = x.query /\ y.generation = x.generation
      /\ y.lists = x.lists /\ y.phase = "failed"
  BY DEF SearchGood, Searches, Phases
<1> HIDE DEF y
<1> QED BY <1>1 DEF SearchGood, y

(* Something else is searched for.                                         *)
LEMMA SearchBegunWell ==
  ASSUME NEW x, NEW c, NEW b, SearchGood(x, c, b), MailGood(c, b), NEW query \in Nat
  PROVE  LET y == Begun(x, query)
             s == <<SearchRequest(y)>>
         IN  SearchGood(y, c \o s, b) /\ s \in Seq(Requests) /\ (\A q \in ToSet(s) : q.tag = "search")
<1> DEFINE g == x.generation
           y == Begun(x, query)
           r == SearchRequest(y)
           s == <<r>>
<1>1. /\ x \in Searches
      /\ \A q \in Out(c, b) : q.tag = "search" => q.number <= g /\ q.list \in Tabs \cup {"all"}
  BY DEF SearchGood
<1>2. g \in Nat /\ g + 1 \in Nat /\ g < g + 1
  BY <1>1 DEF Searches
<1>3. /\ y \in Searches
      /\ y.query = query /\ y.generation = g + 1 /\ y.phase = "loading"
      /\ \A t \in Tabs : y.lists[t] = NoList
  BY <1>1, BegunRecord
<1>4. r = Request("search", g + 1, query, "all", 0)
  BY <1>3 DEF SearchRequest
<1>5. \A t \in Tabs : y.lists[t].loading = FALSE /\ ShowsInOrder(y.lists[t], query, t)
  BY <1>3, NoListBuilt DEF ShowsInOrder
<1> HIDE DEF y
<1>8. r \in Requests /\ r.tag = "search" /\ r.number = g + 1 /\ r.list = "all" /\ r.of = query /\ r.at = 0
  BY <1>2, <1>4 DEF Requests, Request, Names, Tags
<1> HIDE DEF r
<1>9. s \in Seq(Requests) /\ ToSet(s) = {r} /\ \A i, j \in DOMAIN s : i = j
  BY <1>8 DEF ToSet
<1>10. \A l : OutFor(c, b, "search", g + 1, l) = {}
  BY <1>1, <1>2, NoneAsked
<1> DEFINE d == c \o s
<1> HIDE DEF s, d
<1>11. Out(d, b) = Out(c, b) \cup {r}
  <2>1. s \in Seq(Requests)
    BY <1>9
  <2>2. Out(d, b) = Out(c, b) \cup ToSet(s)
    BY <2>1, AskedIsOut DEF d
  <2> QED BY <2>2, <1>9
<1>12. Lone(d, b, "search", g + 1, "all")
  <2>1. \A i, j \in DOMAIN s : Is(s[i], "search", g + 1, "all") /\ Is(s[j], "search", g + 1, "all") => i = j
    BY <1>9
  <2> QED BY <2>1, <1>9, <1>10, AskedOut DEF d
<1>13. OutFor(d, b, "search", g + 1, "all") = {r} /\ \A t \in Tabs : OutFor(d, b, "search", g + 1, t) = {}
  <2>1. \A t \in Tabs : ~Is(r, "search", g + 1, t)
    BY <1>8, TuiAssumption DEF Is
  <2>2. Is(r, "search", g + 1, "all")
    BY <1>8 DEF Is
  <2> QED BY <2>1, <2>2, <1>10, <1>11 DEF OutFor
<1>14. \A t \in Tabs : PagedGood(y.lists[t], "search", g + 1, t, query, d, b)
  BY <1>5, <1>13, PagedIdle
<1>15. \A q \in Out(d, b) : q.tag = "search" => q.number <= g + 1 /\ q.list \in Tabs \cup {"all"}
  <2>1. Out(c, b) \subseteq Requests
    BY DEF MailGood, Out, ToSet, BagToSet
  <2>2. \A q \in Out(c, b) : q.number \in Nat
    BY <2>1 DEF Requests
  <2> QED BY <2>2, <1>1, <1>2, <1>8, <1>11
<1>16. SearchGood(y, d, b)
  BY <1>3, <1>5, <1>8, <1>12, <1>13, <1>14, <1>15 DEF SearchGood
<1> QED BY <1>8, <1>9, <1>16 DEF y, r, s, d

(* The next page of one of its lists is asked for.                         *)
LEMMA SearchMoreWell ==
  ASSUME NEW x, NEW c, NEW b, SearchGood(x, c, b), MailGood(c, b), x.phase = "done",
         NEW t \in Tabs, ~(x.lists[t].loading = TRUE)
  PROVE  LET y == [x EXCEPT !.lists[t].loading = TRUE]
             s == <<Request("search", x.generation, x.query, t, Len(x.lists[t].rows))>>
         IN  SearchGood(y, c \o s, b) /\ s \in Seq(Requests) /\ (\A q \in ToSet(s) : q.tag = "search")
<1> DEFINE g == x.generation
           y == [x EXCEPT !.lists[t].loading = TRUE]
           r == Request("search", g, x.query, t, Len(x.lists[t].rows))
           s == <<r>>
           list == [x.lists[t] EXCEPT !.loading = TRUE]
           lists == [x.lists EXCEPT ![t] = list]
<1>1. /\ x \in Searches
      /\ \A q \in Out(c, b) : q.tag = "search" => q.number <= g /\ q.list \in Tabs \cup {"all"}
      /\ Lone(c, b, "search", g, "all")
      /\ \A q \in OutFor(c, b, "search", g, "all") : x.phase \in {"loading", "failed"}
      /\ \A u \in Tabs : /\ PagedGood(x.lists[u], "search", g, u, x.query, c, b)
                         /\ Lone(c, b, "search", g, u)
                         /\ x.lists[u].loading = TRUE => OutFor(c, b, "search", g, u) # {}
  BY DEF SearchGood, PagedGood
<1>2. g \in Nat /\ x.query \in Nat /\ x.lists \in [Tabs -> Lists] /\ x.lists[t] \in Lists
  BY <1>1 DEF Searches
<1>3. y = [query |-> x.query, generation |-> g, phase |-> "done", lists |-> lists]
  <2>1. y = [x EXCEPT !.lists = lists]
    OBVIOUS
  <2> QED BY <2>1, <1>1, SearchRecord
<1>4. list \in Lists /\ list.loading = TRUE
  BY <1>2, Zenon DEF Lists
<1>5. Len(x.lists[t].rows) \in Nat
  <2>1. x.lists[t].rows \in Seq(Rows)
    BY <1>2 DEF Lists
  <2> QED BY <2>1, LenProperties
<1>6. r \in Requests /\ r.tag = "search" /\ r.number = g /\ r.list = t
  BY <1>2, <1>5 DEF Request, Requests, Names, Tags
<1>7. OutFor(c, b, "search", g, t) = {}
  BY <1>1, NotLoadingIdle
<1>8. PagedGood(list, "search", g, t, x.query, c \o s, b) /\ OutFor(c \o s, b, "search", g, t) # {}
  <2>1. "search" \in Tags /\ t \in Names
    BY DEF Tags, Names
  <2> QED BY <2>1, <1>1, <1>2, <1>7, PagedAsked
<1> HIDE DEF r, list, y
<1>9. s \in Seq(Requests) /\ ToSet(s) = {r}
  BY <1>6 DEF ToSet
<1>10. lists \in [Tabs -> Lists] /\ lists[t] = list /\ \A u \in Tabs : u # t => lists[u] = x.lists[u]
  BY <1>2, <1>4
<1> DEFINE d == c \o s
<1> HIDE DEF s, d, lists
<1>11. Out(d, b) = Out(c, b) \cup {r}
  <2>1. s \in Seq(Requests)
    BY <1>9
  <2>2. Out(d, b) = Out(c, b) \cup ToSet(s)
    BY <2>1, AskedIsOut DEF d
  <2> QED BY <2>2, <1>9
<1>12. \A l : l # t => /\ OutFor(d, b, "search", g, l) = OutFor(c, b, "search", g, l)
                       /\ Lone(c, b, "search", g, l) => Lone(d, b, "search", g, l)
  <2>1. \A l : l # t => \A q \in ToSet(s) : ~Is(q, "search", g, l)
    BY <1>6, <1>9 DEF Is
  <2> QED BY <2>1, <1>9, AskedOut DEF d
<1>13. t # "all"
  BY TuiAssumption
<1>14. OutFor(d, b, "search", g, "all") = {} /\ Lone(d, b, "search", g, "all")
  BY <1>1, <1>12, <1>13
<1>15. \A u \in Tabs : /\ PagedGood(lists[u], "search", g, u, x.query, d, b)
                       /\ lists[u].loading = TRUE => OutFor(d, b, "search", g, u) # {}
  BY <1>1, <1>8, <1>10, <1>12, PagedKept DEF d
<1>16. \A q \in Out(d, b) : q.tag = "search" => q.number <= g /\ q.list \in Tabs \cup {"all"}
  BY <1>1, <1>2, <1>6, <1>11
<1>17. y \in Searches
  BY <1>2, <1>3, <1>10 DEF Searches, Phases
<1>18. SearchGood(y, d, b)
  BY <1>3, <1>14, <1>15, <1>16, <1>17 DEF SearchGood
<1> QED BY <1>6, <1>9, <1>18 DEF y, r, s, d

---------------------------------------------------------------------------
(* A view.                                                                 *)

LEMMA InOrderOwn ==
  ASSUME NEW list, NEW of, NEW name, ShowsInOrder(list, of, name)
  PROVE  OwnRows(list, of, name)
<1> DEFINE row(i) == [of |-> of, list |-> name, at |-> i - 1]
<1>1. \A i \in DOMAIN list.rows : list.rows[i] = row(i)
  BY DEF ShowsInOrder
<1>2. \A i : row(i).of = of /\ row(i).list = name
  OBVIOUS
<1> HIDE DEF row
<1> QED BY <1>1, <1>2 DEF OwnRows

LEMMA ViewMade ==
  ASSUME NEW n \in Nat, NEW k \in Kinds, NEW p \in Phases \ {"none"}, NEW ls \in [ListsOf(k) -> Lists]
  PROVE  LET v == [serial |-> n, kind |-> k, phase |-> p, lists |-> ls]
         IN  v \in ViewSet /\ DOMAIN v.lists = ListsOf(v.kind)
<1>1. ls \in UNION {[ListsOf(kk) -> Lists] : kk \in Kinds}
  OBVIOUS
<1> QED BY <1>1 DEF ViewSet

LEMMA ViewParts ==
  ASSUME NEW v \in ViewSet, DOMAIN v.lists = ListsOf(v.kind)
  PROVE  /\ v = [serial |-> v.serial, kind |-> v.kind, phase |-> v.phase, lists |-> v.lists]
         /\ v.serial \in Nat /\ v.kind \in Kinds /\ v.phase \in Phases \ {"none"}
         /\ v.lists \in [ListsOf(v.kind) -> Lists]
<1>1. v.lists \in UNION {[ListsOf(kk) -> Lists] : kk \in Kinds}
  BY DEF ViewSet
<1>2. PICK k \in Kinds : v.lists \in [ListsOf(k) -> Lists]
  BY <1>1
<1>3. v.lists \in [ListsOf(v.kind) -> Lists]
  BY <1>2
<1> QED BY <1>3 DEF ViewSet

LEMMA ViewRecord ==
  ASSUME NEW v \in ViewSet, NEW ls, NEW p
  PROVE  /\ [v EXCEPT !.lists = ls]
              = [serial |-> v.serial, kind |-> v.kind, phase |-> v.phase, lists |-> ls]
         /\ [v EXCEPT !.phase = p]
              = [serial |-> v.serial, kind |-> v.kind, phase |-> p, lists |-> v.lists]
         /\ [v EXCEPT !.phase = p, !.lists = ls]
              = [[v EXCEPT !.lists = ls] EXCEPT !.phase = p]
<1>1. [v EXCEPT !.lists = ls]
        = [serial |-> v.serial, kind |-> v.kind, phase |-> v.phase, lists |-> ls]
  BY DEF ViewSet
<1>2. [v EXCEPT !.phase = p]
        = [serial |-> v.serial, kind |-> v.kind, phase |-> p, lists |-> v.lists]
  BY DEF ViewSet
<1>3. [v EXCEPT !.phase = p, !.lists = ls]
        = [[v EXCEPT !.lists = ls] EXCEPT !.phase = p]
  BY Zenon
<1> QED BY <1>1, <1>2, <1>3

LEMMA ListNames ==
  ASSUME NEW k \in Kinds
  PROVE  /\ ListsOf(k) \subseteq Names /\ "all" \notin ListsOf(k)
         /\ k # "artist" => ListsOf(k) = {"tracks"}
BY DEF ListsOf, Names

LEMMA ViewKept ==
  ASSUME NEW v, NEW c, NEW b, NEW d, NEW e, ViewGood(v, c, b),
         \A r \in Out(d, e) : r.tag = "view" => r \in Out(c, b) \/ r.number # v.serial,
         \A l : /\ OutFor(d, e, "view", v.serial, l) = OutFor(c, b, "view", v.serial, l)
                /\ Lone(c, b, "view", v.serial, l) => Lone(d, e, "view", v.serial, l)
  PROVE  ViewGood(v, d, e)
<1>1. \A r \in Out(d, e) : r.tag = "view" /\ r.number = v.serial =>
        r.of = v.serial /\ r.list \in {"all"} \cup ListsOf(v.kind)
  BY DEF ViewGood
<1>2. \A l \in ListsOf(v.kind) : v.kind # "artist" =>
        PagedGood(v.lists[l], "view", v.serial, l, v.serial, d, e)
  <2>1. TAKE l \in ListsOf(v.kind)
  <2>2. v.kind # "artist" => PagedGood(v.lists[l], "view", v.serial, l, v.serial, c, b)
    BY DEF ViewGood
  <2>3. v.kind # "artist" => Lone(c, b, "view", v.serial, l)
    BY <2>2 DEF PagedGood
  <2> QED BY <2>2, <2>3, PagedKept
<1> QED BY <1>1, <1>2 DEF ViewGood

(* What a view knows of what is asked for it.                              *)
LEMMA ViewFacts ==
  ASSUME NEW v, NEW c, NEW b, ViewGood(v, c, b)
  PROVE  /\ v \in ViewSet /\ DOMAIN v.lists = ListsOf(v.kind)
         /\ v.serial \in Nat /\ v.kind \in Kinds /\ v.phase \in Phases \ {"none"}
         /\ v.lists \in [ListsOf(v.kind) -> Lists]
         /\ \A l \in ListsOf(v.kind) : v.lists[l] \in Lists /\ l \in Names /\ l # "all"
         /\ \A r \in Out(c, b) : r.tag = "view" /\ r.number = v.serial =>
              r.of = v.serial /\ r.list \in {"all"} \cup ListsOf(v.kind)
         /\ Lone(c, b, "view", v.serial, "all")
         /\ OutFor(c, b, "view", v.serial, "all") # {} =>
              /\ v.phase \in {"loading", "failed"}
              /\ \A l \in ListsOf(v.kind) :
                   v.lists[l] = NoList /\ OutFor(c, b, "view", v.serial, l) = {}
         /\ \A r \in OutFor(c, b, "view", v.serial, "all") : r.at = 0
         /\ v.phase = "loading" => OutFor(c, b, "view", v.serial, "all") # {}
         /\ \A l \in ListsOf(v.kind) :
              /\ v.lists[l].loading = TRUE => OutFor(c, b, "view", v.serial, l) # {}
              /\ v.kind = "artist" => OwnRows(v.lists[l], v.serial, l)
              /\ v.kind # "artist" => PagedGood(v.lists[l], "view", v.serial, l, v.serial, c, b)
<1>1. v \in ViewSet /\ DOMAIN v.lists = ListsOf(v.kind)
  BY DEF ViewGood
<1>2. /\ v.serial \in Nat /\ v.kind \in Kinds /\ v.phase \in Phases \ {"none"}
      /\ v.lists \in [ListsOf(v.kind) -> Lists]
  BY <1>1, ViewParts
<1>3. \A l \in ListsOf(v.kind) : v.lists[l] \in Lists /\ l \in Names /\ l # "all"
  BY <1>2, ListNames
<1> QED BY <1>1, <1>2, <1>3 DEF ViewGood

(* The connection goes.                                                    *)
LEMMA ViewLostWell ==
  ASSUME NEW v, NEW c, NEW b, ViewGood(v, c, b)
  PROVE  ViewGood([v EXCEPT !.phase = IF @ = "loading" THEN "failed" ELSE @], c, b)
<1> DEFINE p == IF v.phase = "loading" THEN "failed" ELSE v.phase
           y == [v EXCEPT !.phase = p]
           z == [serial |-> v.serial, kind |-> v.kind, phase |-> p, lists |-> v.lists]
<1>1. v \in ViewSet /\ DOMAIN v.lists = ListsOf(v.kind)
  BY DEF ViewGood
<1>2. p \in Phases \ {"none"} /\ p # "loading" /\ (v.phase \in {"loading", "failed"} => p = "failed")
  BY <1>1, ViewParts DEF Phases
<1> HIDE DEF p
<1>3. y = z
  BY <1>1, ViewRecord
<1>4. z \in ViewSet /\ DOMAIN z.lists = ListsOf(z.kind)
  BY <1>1, <1>2, ViewParts, ViewMade
<1>5. z.serial = v.serial /\ z.kind = v.kind /\ z.lists = v.lists /\ z.phase = p
  OBVIOUS
<1> HIDE DEF z
<1>6. ViewGood(z, c, b)
  BY <1>2, <1>4, <1>5 DEF ViewGood
<1> QED BY <1>3, <1>6 DEF p

(* One is opened.                                                          *)
LEMMA ViewOpenedWell ==
  ASSUME NEW n \in Nat, NEW kind \in Kinds, NEW c, NEW b, MailGood(c, b),
         \A r \in Out(c, b) : r.tag = "view" => r.number < n
  PROVE  LET v == NewView(n, kind)
             s == <<Request("view", n, n, "all", 0)>>
         IN  /\ ViewGood(v, c \o s, b) /\ v.serial = n
             /\ s \in Seq(Requests)
             /\ \A q \in ToSet(s) : q.tag = "view" /\ q.number = n
<1> DEFINE lists == [l \in ListsOf(kind) |-> NoList]
           v == [serial |-> n, kind |-> kind, phase |-> "loading", lists |-> lists]
           r == Request("view", n, n, "all", 0)
           s == <<r>>
           d == c \o s
<1>1. NewView(n, kind) = v
  BY DEF NewView
<1>2. lists \in [ListsOf(kind) -> Lists] /\ \A l \in ListsOf(kind) : lists[l] = NoList
  BY NoListBuilt
<1> HIDE DEF lists
<1>3. v \in ViewSet /\ DOMAIN v.lists = ListsOf(v.kind)
  <2>1. "loading" \in Phases \ {"none"}
    BY DEF Phases
  <2> QED BY <2>1, <1>2, ViewMade
<1>4. v.serial = n /\ v.kind = kind /\ v.phase = "loading" /\ v.lists = lists
  OBVIOUS
<1> HIDE DEF v
<1>5. r \in Requests /\ r.tag = "view" /\ r.number = n /\ r.list = "all" /\ r.of = n /\ r.at = 0
  BY DEF Request, Requests, Names, Tags
<1> HIDE DEF r
<1>6. s \in Seq(Requests) /\ ToSet(s) = {r} /\ \A i, j \in DOMAIN s : i = j
  BY <1>5 DEF ToSet
<1>7. \A l : OutFor(c, b, "view", n, l) = {}
  <2>1. Out(c, b) \subseteq Requests
    BY DEF MailGood, Out, ToSet, BagToSet
  <2>2. \A q \in Out(c, b) : q.number \in Nat
    BY <2>1 DEF Requests
  <2>3. \A q \in Out(c, b) : q.tag = "view" => q.number # n
    BY <2>2
  <2> QED BY <2>3 DEF OutFor, Is
<1> HIDE DEF s, d
<1>8. Out(d, b) = Out(c, b) \cup {r}
  <2>1. s \in Seq(Requests)
    BY <1>6
  <2>2. Out(d, b) = Out(c, b) \cup ToSet(s)
    BY <2>1, AskedIsOut DEF d
  <2> QED BY <2>2, <1>6
<1>9. Lone(d, b, "view", n, "all")
  <2>1. \A i, j \in DOMAIN s : Is(s[i], "view", n, "all") /\ Is(s[j], "view", n, "all") => i = j
    BY <1>6
  <2> QED BY <2>1, <1>6, <1>7, AskedOut DEF d
<1>10. \A q \in OutFor(d, b, "view", n, "all") : q = r
  BY <1>7, <1>8 DEF OutFor
<1>11. r \in OutFor(d, b, "view", n, "all")
  BY <1>5, <1>8 DEF OutFor, Is
<1>12. \A l : l # "all" => OutFor(d, b, "view", n, l) = {}
  <2>1. \A l : l # "all" => ~Is(r, "view", n, l)
    BY <1>5 DEF Is
  <2> QED BY <2>1, <1>7, <1>8 DEF OutFor
<1>13. \A l \in ListsOf(kind) :
         /\ OutFor(d, b, "view", n, l) = {} /\ OwnRows(lists[l], n, l)
         /\ PagedGood(lists[l], "view", n, l, n, d, b)
  <2>1. TAKE l \in ListsOf(kind)
  <2>2. OutFor(d, b, "view", n, l) = {}
    BY <1>12, ListNames
  <2>3. OwnRows(lists[l], n, l) /\ ShowsInOrder(lists[l], n, l)
    BY <1>2, NoListBuilt DEF OwnRows, ShowsInOrder
  <2> QED BY <2>2, <2>3, PagedIdle
<1>14. \A q \in Out(d, b) : q.tag = "view" /\ q.number = n => q = r
  BY <1>7, <1>8 DEF OutFor, Is
<1>15. \A l \in ListsOf(kind) : lists[l].loading = FALSE
  BY <1>2, NoListBuilt
<1>16. \A q \in Out(d, b) : q.tag = "view" /\ q.number = n =>
         q.of = n /\ q.list \in {"all"} \cup ListsOf(kind)
  BY <1>5, <1>14
<1>17. \A q \in OutFor(d, b, "view", n, "all") :
         /\ q.at = 0 /\ v.phase \in {"loading", "failed"}
         /\ \A l \in ListsOf(kind) : lists[l] = NoList /\ OutFor(d, b, "view", n, l) = {}
  BY <1>2, <1>4, <1>5, <1>10, <1>13
<1>18. OutFor(d, b, "view", n, "all") # {}
  BY <1>11
<1>19. ViewGood(v, d, b)
  BY <1>3, <1>4, <1>9, <1>13, <1>15, <1>16, <1>17, <1>18 DEF ViewGood
<1> QED BY <1>1, <1>4, <1>5, <1>6, <1>19 DEF d, s, r

(* An answer is for one view: the others do not notice.                    *)
LEMMA OtherViewAnswered ==
  ASSUME NEW v, NEW c, NEW b, ViewGood(v, c, b), MailGood(c, b),
         NEW r \in BagToSet(b), r.number # v.serial
  PROVE  ViewGood(v, c, BagRemove(b, r))
<1> DEFINE e == BagRemove(b, r)
<1>1. \A l : ~Is(r, "view", v.serial, l)
  BY DEF Is
<1>2. /\ Out(c, e) \subseteq Out(c, b)
      /\ \A l : Lone(c, b, "view", v.serial, l) => Lone(c, e, "view", v.serial, l)
      /\ \A l : ~Is(r, "view", v.serial, l) =>
           OutFor(c, e, "view", v.serial, l) = OutFor(c, b, "view", v.serial, l)
  BY AnsweredOut
<1> HIDE DEF e
<1>3. ViewGood(v, c, e)
  BY <1>1, <1>2, ViewKept
<1> QED BY <1>3 DEF e

(* What an answer leaves outstanding of what a view is waiting for.        *)
LEMMA ViewMail ==
  ASSUME NEW v, NEW c, NEW b, ViewGood(v, c, b), MailGood(c, b),
         NEW r \in BagToSet(b), r.tag = "view", r.number = v.serial
  PROVE  LET e == BagRemove(b, r)
             S(l) == OutFor(c, b, "view", v.serial, l)
             T(l) == OutFor(c, e, "view", v.serial, l)
         IN  /\ r \in Requests /\ r.of = v.serial /\ r.list \in {"all"} \cup ListsOf(v.kind)
             /\ r \in S(r.list)
             /\ \A q \in Out(c, e) : q.tag = "view" /\ q.number = v.serial =>
                  q.of = v.serial /\ q.list \in {"all"} \cup ListsOf(v.kind)
             /\ \A l : T(l) \subseteq S(l)
             /\ \A l : l # r.list => T(l) = S(l)
             /\ Lone(c, e, "view", v.serial, "all")
             /\ \A l : Lone(c, b, "view", v.serial, l) => Lone(c, e, "view", v.serial, l)
             /\ r.list = "all" => T("all") = {}
             /\ S("all") # {} =>
                  r.list = "all" /\ \A l \in ListsOf(v.kind) : v.lists[l] = NoList /\ T(l) = {}
<1> DEFINE e == BagRemove(b, r)
           S(l) == OutFor(c, b, "view", v.serial, l)
           T(l) == OutFor(c, e, "view", v.serial, l)
<1>1. /\ r \in Requests /\ r \in Out(c, b) /\ Out(c, e) \subseteq Out(c, b)
      /\ \A l : Lone(c, b, "view", v.serial, l) => Lone(c, e, "view", v.serial, l)
      /\ \A l : Lone(c, b, "view", v.serial, l) /\ Is(r, "view", v.serial, l) => T(l) = {}
      /\ \A l : ~Is(r, "view", v.serial, l) => T(l) = S(l)
  BY AnsweredOut
<1>2. /\ \A q \in Out(c, b) : q.tag = "view" /\ q.number = v.serial =>
           q.of = v.serial /\ q.list \in {"all"} \cup ListsOf(v.kind)
      /\ Lone(c, b, "view", v.serial, "all")
      /\ S("all") # {} => \A l \in ListsOf(v.kind) : v.lists[l] = NoList /\ S(l) = {}
  BY ViewFacts
<1>3. r \in S(r.list)
  BY <1>1 DEF OutFor, Is
<1>4. \A l : l # r.list => T(l) = S(l)
  BY <1>1 DEF Is
<1>5. \A l : T(l) \subseteq S(l)
  BY <1>1 DEF OutFor
<1>6. r.list = "all" => T("all") = {}
  BY <1>1, <1>2 DEF Is
<1>7. r.of = v.serial /\ r.list \in {"all"} \cup ListsOf(v.kind)
  BY <1>1, <1>2
<1>8. ASSUME S("all") # {}
      PROVE  r.list = "all" /\ \A l \in ListsOf(v.kind) : v.lists[l] = NoList /\ T(l) = {}
  <2>1. \A l \in ListsOf(v.kind) : v.lists[l] = NoList /\ S(l) = {}
    BY <1>2, <1>8
  <2>2. r.list \notin ListsOf(v.kind)
    BY <2>1, <1>3
  <2>3. \A l \in ListsOf(v.kind) : T(l) = {}
    BY <2>1, <1>5
  <2> QED BY <2>1, <2>2, <2>3, <1>7
<1> HIDE DEF S, T, e
<1>9. \A q \in Out(c, e) : q.tag = "view" /\ q.number = v.serial =>
        q.of = v.serial /\ q.list \in {"all"} \cup ListsOf(v.kind)
  BY <1>1, <1>2
<1>10. Lone(c, e, "view", v.serial, "all")
  BY <1>1, <1>2
<1> QED BY <1>1, <1>3, <1>4, <1>5, <1>6, <1>7, <1>8, <1>9, <1>10 DEF S, T, e

(* The view was still waiting to be opened.                                *)
LEMMA ViewOpenAnswered ==
  ASSUME NEW v, NEW c, NEW b, ViewGood(v, c, b), MailGood(c, b), v.phase = "loading",
         NEW r \in BagToSet(b), r.tag = "view", r.number = v.serial, NEW result
  PROVE  ViewGood(ViewAnswered(v, r, result), c, BagRemove(b, r))
<1> DEFINE e == BagRemove(b, r)
           T(l) == OutFor(c, e, "view", v.serial, l)
           y == ViewAnswered(v, r, result)
<1>1. /\ v \in ViewSet /\ DOMAIN v.lists = ListsOf(v.kind)
      /\ v.serial \in Nat /\ v.kind \in Kinds /\ v.lists \in [ListsOf(v.kind) -> Lists]
      /\ \A l \in ListsOf(v.kind) : v.lists[l] \in Lists /\ l \in Names /\ l # "all"
      /\ OutFor(c, b, "view", v.serial, "all") # {}
      /\ \A q \in OutFor(c, b, "view", v.serial, "all") : q.at = 0
      /\ \A l \in ListsOf(v.kind) : v.kind = "artist" => OwnRows(v.lists[l], v.serial, l)
  BY ViewFacts
<1>2. /\ r \in Requests /\ r.of = v.serial /\ r.list = "all"
      /\ r \in OutFor(c, b, "view", v.serial, "all")
      /\ \A q \in Out(c, e) : q.tag = "view" /\ q.number = v.serial =>
           q.of = v.serial /\ q.list \in {"all"} \cup ListsOf(v.kind)
      /\ T("all") = {} /\ \A l \in ListsOf(v.kind) : v.lists[l] = NoList /\ T(l) = {}
      /\ Lone(c, e, "view", v.serial, "all")
  BY <1>1, ViewMail
<1>3. r.at = 0
  BY <1>1, <1>2
<1> HIDE DEF e
<1>4. ASSUME NEW z, z \in ViewSet, DOMAIN z.lists = ListsOf(z.kind), z.serial = v.serial,
             z.kind = v.kind, z.phase # "loading",
             \A l \in ListsOf(v.kind) :
               /\ z.lists[l].loading = FALSE
               /\ OwnRows(z.lists[l], v.serial, l) /\ ShowsInOrder(z.lists[l], v.serial, l)
      PROVE  ViewGood(z, c, e)
  <2>1. \A l \in ListsOf(v.kind) : PagedGood(z.lists[l], "view", v.serial, l, v.serial, c, e)
    BY <1>2, <1>4, PagedIdle
  <2> HIDE DEF T
  <2>2. \A q \in OutFor(c, e, "view", v.serial, "all") : FALSE
    BY <1>2 DEF T
  <2> QED BY <2>1, <2>2, <1>2, <1>4 DEF ViewGood
<1>5. CASE result = "error"
  <2> DEFINE z == [serial |-> v.serial, kind |-> v.kind, phase |-> "failed", lists |-> v.lists]
  <2>1. y = [v EXCEPT !.phase = "failed"]
    BY <1>5 DEF ViewAnswered
  <2>2. y = z
    BY <2>1, <1>1, ViewRecord
  <2>3. z \in ViewSet /\ DOMAIN z.lists = ListsOf(z.kind)
    <3>1. "failed" \in Phases \ {"none"}
      BY DEF Phases
    <3> QED BY <3>1, <1>1, ViewMade
  <2>4. z.serial = v.serial /\ z.kind = v.kind /\ z.phase # "loading" /\ z.lists = v.lists
    OBVIOUS
  <2>5. \A l \in ListsOf(v.kind) :
          /\ v.lists[l].loading = FALSE
          /\ OwnRows(v.lists[l], v.serial, l) /\ ShowsInOrder(v.lists[l], v.serial, l)
    BY <1>2, NoListBuilt DEF OwnRows, ShowsInOrder
  <2> HIDE DEF z, y
  <2>6. ViewGood(z, c, e)
    BY <2>3, <2>4, <2>5, <1>4
  <2> QED BY <2>2, <2>6 DEF y, e
<1>6. CASE result # "error"
  <2> DEFINE lists == [l \in ListsOf(v.kind) |-> FromPage(Page(r, l, result))]
             z == [serial |-> v.serial, kind |-> v.kind, phase |-> "done", lists |-> lists]
  <2>1. y = [v EXCEPT !.phase = "done", !.lists = lists]
    BY <1>1, <1>6 DEF ViewAnswered
  <2>2. \A l \in ListsOf(v.kind) : lists[l] = FromPage(Page(r, l, result))
    OBVIOUS
  <2>3. \A l \in ListsOf(v.kind) :
          /\ lists[l] \in Lists /\ lists[l].loading = FALSE
          /\ OwnRows(lists[l], v.serial, l) /\ ShowsInOrder(lists[l], v.serial, l)
    <3>1. TAKE l \in ListsOf(v.kind)
    <3>2. FromPage(Page(r, l, result)) \in Lists /\ FromPage(Page(r, l, result)).loading = FALSE
      BY <1>1, <1>2, FirstBuilt
    <3>3. ShowsInOrder(FromPage(Page(r, l, result)), r.of, l)
      BY <1>3, FirstInOrder, Zenon
    <3> HIDE DEF lists
    <3>4. ShowsInOrder(lists[l], v.serial, l)
      BY <3>3, <2>2, <1>2
    <3>5. OwnRows(lists[l], v.serial, l)
      BY <3>4, InOrderOwn
    <3> QED BY <3>2, <3>4, <3>5, <2>2
  <2>4. lists \in [ListsOf(v.kind) -> Lists]
    <3>1. \A l \in ListsOf(v.kind) : FromPage(Page(r, l, result)) \in Lists
      BY <2>2, <2>3
    <3> QED BY <3>1
  <2> HIDE DEF lists, y
  <2>5. y = z
    <3>1. [v EXCEPT !.phase = "done", !.lists = lists]
            = [[v EXCEPT !.lists = lists] EXCEPT !.phase = "done"]
      BY <1>1, ViewRecord
    <3>2. [v EXCEPT !.lists = lists]
            = [serial |-> v.serial, kind |-> v.kind, phase |-> v.phase, lists |-> lists]
      BY <1>1, ViewRecord
    <3> QED BY <3>1, <3>2, <2>1
  <2>6. z \in ViewSet /\ DOMAIN z.lists = ListsOf(z.kind)
    <3>1. "done" \in Phases \ {"none"}
      BY DEF Phases
    <3> QED BY <3>1, <2>4, <1>1, ViewMade
  <2>7. z.serial = v.serial /\ z.kind = v.kind /\ z.phase # "loading" /\ z.lists = lists
    OBVIOUS
  <2> HIDE DEF z
  <2>8. ViewGood(z, c, e)
    BY <2>3, <2>6, <2>7, <1>4
  <2> QED BY <2>5, <2>8 DEF y, e
<1> QED BY <1>5, <1>6

(* A page failed, or what came is not one: every list may be asked again.  *)
LEMMA ViewPageFailed ==
  ASSUME NEW v, NEW c, NEW b, ViewGood(v, c, b), MailGood(c, b), v.phase # "loading",
         NEW r \in BagToSet(b), r.tag = "view", r.number = v.serial
  PROVE  ViewGood([v EXCEPT !.lists = AllAskable(@)], c, BagRemove(b, r))
<1> DEFINE e == BagRemove(b, r)
           T(l) == OutFor(c, e, "view", v.serial, l)
           lists == AllAskable(v.lists)
           z == [serial |-> v.serial, kind |-> v.kind, phase |-> v.phase, lists |-> lists]
<1>1. /\ v \in ViewSet /\ DOMAIN v.lists = ListsOf(v.kind)
      /\ v.serial \in Nat /\ v.kind \in Kinds /\ v.phase \in Phases \ {"none"}
      /\ v.lists \in [ListsOf(v.kind) -> Lists]
      /\ \A l \in ListsOf(v.kind) : v.lists[l] \in Lists /\ l \in Names /\ l # "all"
      /\ \A l \in ListsOf(v.kind) :
           /\ v.kind = "artist" => OwnRows(v.lists[l], v.serial, l)
           /\ v.kind # "artist" => PagedGood(v.lists[l], "view", v.serial, l, v.serial, c, b)
  BY ViewFacts
<1>2. /\ r \in Requests /\ r.list \in {"all"} \cup ListsOf(v.kind)
      /\ r \in OutFor(c, b, "view", v.serial, r.list)
      /\ \A q \in Out(c, e) : q.tag = "view" /\ q.number = v.serial =>
           q.of = v.serial /\ q.list \in {"all"} \cup ListsOf(v.kind)
      /\ r.list # "all" => OutFor(c, b, "view", v.serial, "all") = {}
      /\ T("all") = {}
      /\ OutFor(c, b, "view", v.serial, "all") # {} => \A l \in ListsOf(v.kind) : T(l) = {}
      /\ Lone(c, e, "view", v.serial, "all")
  <2>1. T("all") \subseteq OutFor(c, b, "view", v.serial, "all") /\ (r.list = "all" => T("all") = {})
    BY ViewMail
  <2>2. OutFor(c, b, "view", v.serial, "all") # {} =>
          r.list = "all" /\ \A l \in ListsOf(v.kind) : T(l) = {}
    BY ViewMail
  <2> QED BY <2>1, <2>2, ViewMail
<1>3. \A l \in ListsOf(v.kind) :
        /\ lists[l] = [v.lists[l] EXCEPT !.loading = FALSE]
        /\ lists[l] \in Lists /\ lists[l].loading = FALSE /\ lists[l].rows = v.lists[l].rows
  BY <1>1, FlagBuilt DEF AllAskable
<1>4. lists \in [ListsOf(v.kind) -> Lists]
  BY <1>1, <1>3 DEF AllAskable
<1> HIDE DEF lists
<1>5. [v EXCEPT !.lists = AllAskable(@)] = z
  <2>1. [v EXCEPT !.lists = AllAskable(@)] = [v EXCEPT !.lists = lists]
    BY DEF lists
  <2> QED BY <2>1, <1>1, ViewRecord
<1>6. z \in ViewSet /\ DOMAIN z.lists = ListsOf(z.kind)
  BY <1>1, <1>4, ViewMade
<1>7. z.serial = v.serial /\ z.kind = v.kind /\ z.phase = v.phase /\ z.lists = lists
  OBVIOUS
<1> HIDE DEF z
<1>8. \A l \in ListsOf(v.kind) : v.kind = "artist" => OwnRows(lists[l], v.serial, l)
  <2>1. TAKE l \in ListsOf(v.kind)
  <2>2. lists[l].rows = v.lists[l].rows
    BY <1>3
  <2>3. v.kind = "artist" => OwnRows(v.lists[l], v.serial, l)
    BY <1>1
  <2> QED BY <2>2, <2>3 DEF OwnRows
<1>9. ASSUME v.kind # "artist", NEW l \in ListsOf(v.kind)
      PROVE  PagedGood(lists[l], "view", v.serial, l, v.serial, c, e)
  <2>1. PagedGood(v.lists[l], "view", v.serial, l, v.serial, c, b)
    BY <1>1, <1>9
  <2>2. l = "tracks" /\ ListsOf(v.kind) = {"tracks"}
    BY <1>1, <1>9, ListNames
  <2>3. T(l) = {}
    <3>1. CASE r.list = "all"
      BY <3>1, <1>2
    <3>2. CASE r.list = l
      <4>1. Lone(c, b, "view", v.serial, l) /\ Is(r, "view", v.serial, l)
        BY <2>1, <3>2 DEF PagedGood, Is
      <4> QED BY <4>1, AnsweredOut
    <3> QED BY <3>1, <3>2, <2>2, <1>2
  <2>4. ShowsInOrder(lists[l], v.serial, l)
    BY ZenonT(60), <2>1, <1>3 DEF PagedGood, ShowsInOrder
  <2> HIDE DEF e
  <2> QED BY <2>3, <2>4, PagedIdle
<1> HIDE DEF e
<1>10. \A q \in OutFor(c, e, "view", v.serial, "all") : FALSE
  BY <1>2
<1> HIDE DEF T
<1>11. ViewGood(z, c, e)
  BY <1>2, <1>3, <1>6, <1>7, <1>8, <1>9, <1>10 DEF ViewGood
<1> QED BY <1>5, <1>11 DEF e

(* A page came.                                                            *)
LEMMA ViewPageCame ==
  ASSUME NEW v, NEW c, NEW b, ViewGood(v, c, b), MailGood(c, b), v.phase # "loading",
         NEW r \in BagToSet(b), r.tag = "view", r.number = v.serial, NEW result,
         r.list # "all" \/ v.kind = "list", NEW l, l = IF r.list = "all" THEN "tracks" ELSE r.list
  PROVE  ViewGood([v EXCEPT !.lists[l] = Grown(@, Page(r, l, result))], c, BagRemove(b, r))
<1> DEFINE e == BagRemove(b, r)
           S(k) == OutFor(c, b, "view", v.serial, k)
           T(k) == OutFor(c, e, "view", v.serial, k)
           list == Grown(v.lists[l], Page(r, l, result))
           lists == [v.lists EXCEPT ![l] = list]
           z == [serial |-> v.serial, kind |-> v.kind, phase |-> v.phase, lists |-> lists]
<1>1. /\ v \in ViewSet /\ DOMAIN v.lists = ListsOf(v.kind)
      /\ v.serial \in Nat /\ v.kind \in Kinds /\ v.phase \in Phases \ {"none"}
      /\ v.lists \in [ListsOf(v.kind) -> Lists]
      /\ \A k \in ListsOf(v.kind) : v.lists[k] \in Lists /\ k \in Names /\ k # "all"
      /\ \A q \in OutFor(c, b, "view", v.serial, "all") : q.at = 0
      /\ \A k \in ListsOf(v.kind) :
           /\ v.lists[k].loading = TRUE => S(k) # {}
           /\ v.kind = "artist" => OwnRows(v.lists[k], v.serial, k)
           /\ v.kind # "artist" => PagedGood(v.lists[k], "view", v.serial, k, v.serial, c, b)
  BY ViewFacts
<1>2. /\ r \in Requests /\ r.of = v.serial /\ r.list \in {"all"} \cup ListsOf(v.kind)
      /\ r \in S(r.list)
      /\ \A q \in Out(c, e) : q.tag = "view" /\ q.number = v.serial =>
           q.of = v.serial /\ q.list \in {"all"} \cup ListsOf(v.kind)
      /\ \A k : T(k) \subseteq S(k)
      /\ \A k : k # r.list => T(k) = S(k)
      /\ Lone(c, e, "view", v.serial, "all")
      /\ r.list = "all" => T("all") = {}
      /\ S("all") # {} => r.list = "all" /\ \A k \in ListsOf(v.kind) : v.lists[k] = NoList /\ T(k) = {}
  BY ViewMail
<1>3. T("all") = {}
  BY <1>2
<1>4. l \in ListsOf(v.kind)
  BY <1>2 DEF ListsOf
<1>5. v.lists[l] \in Lists /\ l \in Names
  BY <1>1, <1>4
<1>6. list \in Lists /\ list.loading = FALSE
  <2>1. r \in Requests
    BY <1>2
  <2> QED BY <2>1, <1>5, GrownBuilt
<1>7. ASSUME v.kind # "artist" PROVE PagedGood(list, "view", v.serial, l, v.serial, c, e)
  <2>1. PagedGood(v.lists[l], "view", v.serial, l, v.serial, c, b)
    BY <1>1, <1>4, <1>7
  <2>2. CASE r.list = l
    <3>1. Is(r, "view", v.serial, l)
      BY <2>2 DEF Is
    <3> QED BY <3>1, <2>1, <1>5, PagedAnswered
  <2>3. CASE r.list = "all"
    <3>1. v.lists[l] = NoList /\ T(l) = {} /\ r.at = 0
      BY <2>3, <1>1, <1>2, <1>4
    <3>2. r.at = Len(v.lists[l].rows)
      BY <3>1, NoListBuilt
    <3>3. ShowsInOrder(v.lists[l], v.serial, l)
      BY <2>1 DEF PagedGood
    <3>4. ShowsInOrder(list, v.serial, l)
      BY <3>2, <3>3, <1>2, <1>5, GrownInOrder
    <3> HIDE DEF list, e
    <3> QED BY <3>1, <3>4, PagedIdle
  <2> QED BY <2>2, <2>3, <1>4
<1>8. ASSUME v.kind = "artist" PROVE OwnRows(list, v.serial, l)
  <2>1. OwnRows(v.lists[l], v.serial, l)
    BY <1>1, <1>4, <1>8
  <2>2. Page(r, l, result) \in Seq(Rows) /\ v.lists[l].rows \in Seq(Rows)
    <3>1. v.lists[l].rows \in Seq(Rows)
      BY <1>5 DEF Lists
    <3> QED BY <3>1, <1>2, <1>5, PageBuilt
  <2> DEFINE page == Page(r, l, result)
             rows == v.lists[l].rows
             row == [of |-> r.of, list |-> l, at |-> r.at]
  <2>3. \A i \in DOMAIN (rows \o page) :
          \/ i \in DOMAIN rows /\ (rows \o page)[i] = rows[i]
          \/ \E j \in DOMAIN page : i = Len(rows) + j /\ (rows \o page)[i] = page[j]
    <3>1. page \in Seq(Rows) /\ rows \in Seq(Rows)
      BY <2>2
    <3> HIDE DEF page, rows
    <3> QED BY <3>1, JoinedElements
  <2>4. \A j \in DOMAIN page : page[j].of = v.serial /\ page[j].list = l
    <3>1. page = <<>> \/ page = <<row>>
      BY PageRows
    <3>2. row.of = v.serial /\ row.list = l
      BY <1>2
    <3> HIDE DEF page, row
    <3> QED BY <3>1, <3>2
  <2>5. list.rows = rows \o page
    BY DEF Grown
  <2> HIDE DEF page, list
  <2>6. \A i \in DOMAIN rows : rows[i].of = v.serial /\ rows[i].list = l
    BY <2>1 DEF OwnRows
  <2> HIDE DEF rows
  <2>7. ASSUME NEW i \in DOMAIN (rows \o page)
        PROVE  (rows \o page)[i].of = v.serial /\ (rows \o page)[i].list = l
    <3>1. CASE i \in DOMAIN rows /\ (rows \o page)[i] = rows[i]
      BY <2>6, <3>1
    <3>2. CASE \E j \in DOMAIN page : i = Len(rows) + j /\ (rows \o page)[i] = page[j]
      BY <2>4, <3>2
    <3> QED BY <2>3, <3>1, <3>2
  <2> QED BY <2>5, <2>7 DEF OwnRows
<1> HIDE DEF list
<1>9. lists \in [ListsOf(v.kind) -> Lists] /\ lists[l] = list
      /\ \A k \in ListsOf(v.kind) : k # l => lists[k] = v.lists[k]
  BY <1>1, <1>4, <1>6
<1> HIDE DEF lists
<1>10. [v EXCEPT !.lists[l] = Grown(@, Page(r, l, result))] = z
  <2>1. [v EXCEPT !.lists[l] = Grown(@, Page(r, l, result))] = [v EXCEPT !.lists = lists]
    BY DEF lists, list
  <2> QED BY <2>1, <1>1, ViewRecord
<1>11. z \in ViewSet /\ DOMAIN z.lists = ListsOf(z.kind)
  BY <1>1, <1>9, ViewMade
<1>12. z.serial = v.serial /\ z.kind = v.kind /\ z.phase = v.phase /\ z.lists = lists
  OBVIOUS
<1> HIDE DEF z
<1>13. ASSUME NEW k \in ListsOf(v.kind), v.kind = "artist" PROVE OwnRows(lists[k], v.serial, k)
  BY <1>1, <1>8, <1>9, <1>13
<1>14. ASSUME NEW k \in ListsOf(v.kind), v.kind # "artist"
       PROVE  PagedGood(lists[k], "view", v.serial, k, v.serial, c, e)
  <2>1. k = l
    BY <1>1, <1>4, <1>14, ListNames
  <2> QED BY <2>1, <1>7, <1>9, <1>14
<1>15. ASSUME NEW k \in ListsOf(v.kind), lists[k].loading = TRUE PROVE T(k) # {}
  <2>1. k # l /\ v.lists[k].loading = TRUE
    BY <1>6, <1>9, <1>15
  <2>2. S(k) # {}
    BY <2>1, <1>1
  <2>3. CASE r.list = "all"
    <3>1. v.kind = "list"
      BY <2>3
    <3> QED BY <3>1, <2>1, <1>1, <1>4, ListNames
  <2>4. CASE r.list # "all"
    BY <2>1, <2>2, <2>4, <1>2
  <2> QED BY <2>3, <2>4
<1> HIDE DEF e
<1>16. \A q \in OutFor(c, e, "view", v.serial, "all") : FALSE
  BY <1>3
<1>17. \A k \in ListsOf(v.kind) : lists[k].loading = TRUE => OutFor(c, e, "view", v.serial, k) # {}
  BY <1>15
<1> HIDE DEF S, T
<1>18. ViewGood(z, c, e)
  BY <1>2, <1>11, <1>12, <1>13, <1>14, <1>16, <1>17 DEF ViewGood
<1> QED BY <1>10, <1>18 DEF e

LEMMA ViewAnsweredWell ==
  ASSUME NEW v, NEW c, NEW b, ViewGood(v, c, b), MailGood(c, b),
         NEW r \in BagToSet(b), r.tag = "view", r.number = v.serial, NEW result
  PROVE  ViewGood(ViewAnswered(v, r, result), c, BagRemove(b, r))
<1>1. CASE v.phase = "loading"
  BY <1>1, ViewOpenAnswered
<1>2. CASE v.phase # "loading" /\ (result = "error" \/ (r.list = "all" /\ v.kind # "list"))
  <2>1. ViewAnswered(v, r, result) = [v EXCEPT !.lists = AllAskable(@)]
    BY <1>2 DEF ViewAnswered
  <2> QED BY <2>1, <1>2, ViewPageFailed
<1>3. CASE v.phase # "loading" /\ ~(result = "error" \/ (r.list = "all" /\ v.kind # "list"))
  <2> DEFINE l == IF r.list = "all" THEN "tracks" ELSE r.list
  <2>1. ViewAnswered(v, r, result) = [v EXCEPT !.lists[l] = Grown(@, Page(r, l, result))]
    BY <1>3 DEF ViewAnswered
  <2>2. \A k : k = l =>
          ViewGood([v EXCEPT !.lists[k] = Grown(@, Page(r, k, result))], c, BagRemove(b, r))
    BY <1>3, ViewPageCame
  <2> QED BY <2>1, <2>2
<1> QED BY <1>1, <1>2, <1>3

(* Its next page is asked for.                                             *)
LEMMA ViewMoreWell ==
  ASSUME NEW v, NEW c, NEW b, ViewGood(v, c, b), MailGood(c, b), v.phase = "done",
         NEW l \in DOMAIN v.lists, ~(v.lists[l].loading = TRUE)
  PROVE  LET y == [v EXCEPT !.lists[l].loading = TRUE]
             s == <<Request("view", v.serial, v.serial, l, Len(v.lists[l].rows))>>
         IN  /\ ViewGood(y, c \o s, b) /\ y.serial = v.serial
             /\ s \in Seq(Requests)
             /\ \A q \in ToSet(s) : q.tag = "view" /\ q.number = v.serial
<1> DEFINE n == v.serial
           list == [v.lists[l] EXCEPT !.loading = TRUE]
           lists == [v.lists EXCEPT ![l] = list]
           z == [serial |-> n, kind |-> v.kind, phase |-> v.phase, lists |-> lists]
           r == Request("view", n, n, l, Len(v.lists[l].rows))
           s == <<r>>
           d == c \o s
<1>1. /\ v \in ViewSet /\ DOMAIN v.lists = ListsOf(v.kind)
      /\ n \in Nat /\ v.kind \in Kinds /\ v.phase \in Phases \ {"none"}
      /\ v.lists \in [ListsOf(v.kind) -> Lists]
      /\ \A k \in ListsOf(v.kind) : v.lists[k] \in Lists /\ k \in Names /\ k # "all"
      /\ \A q \in Out(c, b) : q.tag = "view" /\ q.number = n =>
           q.of = n /\ q.list \in {"all"} \cup ListsOf(v.kind)
      /\ Lone(c, b, "view", n, "all")
      /\ OutFor(c, b, "view", n, "all") = {}
      /\ \A k \in ListsOf(v.kind) :
           /\ v.lists[k].loading = TRUE => OutFor(c, b, "view", n, k) # {}
           /\ v.kind = "artist" => OwnRows(v.lists[k], n, k)
           /\ v.kind # "artist" => PagedGood(v.lists[k], "view", n, k, n, c, b)
  BY ViewFacts
<1>2. l \in ListsOf(v.kind) /\ v.lists[l] \in Lists /\ l \in Names /\ l # "all"
  BY <1>1
<1>3. list \in Lists /\ list.loading = TRUE /\ list.rows = v.lists[l].rows
  BY <1>2, FlagBuilt
<1>4. Len(v.lists[l].rows) \in Nat
  <2>1. v.lists[l].rows \in Seq(Rows)
    BY <1>2 DEF Lists
  <2> QED BY <2>1, LenProperties
<1>5. r \in Requests /\ r.tag = "view" /\ r.number = n /\ r.list = l /\ r.of = n
  BY <1>1, <1>2, <1>4 DEF Request, Requests, Tags
<1>6. s \in Seq(Requests) /\ ToSet(s) = {r}
  <2> HIDE DEF r
  <2> QED BY <1>5 DEF ToSet
<1>7. ASSUME v.kind # "artist"
      PROVE  PagedGood(list, "view", n, l, n, d, b)
  <2>1. PagedGood(v.lists[l], "view", n, l, n, c, b)
    BY <1>1, <1>2, <1>7
  <2>2. OutFor(c, b, "view", n, l) = {}
    BY <2>1, NotLoadingIdle
  <2>3. "view" \in Tags
    BY DEF Tags
  <2> QED BY <2>1, <2>2, <2>3, <1>1, <1>2, PagedAsked
<1> HIDE DEF r, s, d, list
<1>8. lists \in [ListsOf(v.kind) -> Lists] /\ lists[l] = list
      /\ \A k \in ListsOf(v.kind) : k # l => lists[k] = v.lists[k]
  BY <1>1, <1>2, <1>3
<1> HIDE DEF lists
<1>9. [v EXCEPT !.lists[l].loading = TRUE] = z
  <2>1. [v EXCEPT !.lists[l].loading = TRUE] = [v EXCEPT !.lists = lists]
    BY DEF lists, list
  <2> QED BY ZenonT(60), <2>1, <1>1, ViewRecord
<1>10. z \in ViewSet /\ DOMAIN z.lists = ListsOf(z.kind)
  BY <1>1, <1>8, ViewMade
<1>11. z.serial = n /\ z.kind = v.kind /\ z.phase = v.phase /\ z.lists = lists
  OBVIOUS
<1> HIDE DEF z
<1>12. Out(d, b) = Out(c, b) \cup {r}
  <2>1. s \in Seq(Requests)
    BY <1>6
  <2>2. Out(d, b) = Out(c, b) \cup ToSet(s)
    BY <2>1, AskedIsOut DEF d
  <2> QED BY <2>2, <1>6
<1>13. \A k : k # l => /\ OutFor(d, b, "view", n, k) = OutFor(c, b, "view", n, k)
                       /\ Lone(c, b, "view", n, k) => Lone(d, b, "view", n, k)
  <2>1. \A k : k # l => \A q \in ToSet(s) : ~Is(q, "view", n, k)
    BY <1>5, <1>6 DEF Is
  <2> QED BY <2>1, <1>6, AskedOut DEF d
<1>14. r \in OutFor(d, b, "view", n, l)
  BY <1>5, <1>12 DEF OutFor, Is
<1>15. OutFor(d, b, "view", n, "all") = {} /\ Lone(d, b, "view", n, "all")
  BY <1>1, <1>2, <1>13
<1>16. \A q \in Out(d, b) : q.tag = "view" /\ q.number = n =>
         q.of = n /\ q.list \in {"all"} \cup ListsOf(v.kind)
  BY <1>1, <1>2, <1>5, <1>12
<1>17. ASSUME NEW k \in ListsOf(v.kind), lists[k].loading = TRUE
       PROVE  OutFor(d, b, "view", n, k) # {}
  <2>1. CASE k = l
    BY <2>1, <1>14
  <2>2. CASE k # l
    BY <2>2, <1>1, <1>8, <1>13, <1>17
  <2> QED BY <2>1, <2>2
<1>18. ASSUME NEW k \in ListsOf(v.kind), v.kind = "artist" PROVE OwnRows(lists[k], n, k)
  <2>1. OwnRows(v.lists[k], n, k)
    BY <1>1, <1>18
  <2>2. lists[k].rows = v.lists[k].rows
    BY <1>3, <1>8
  <2> QED BY <2>1, <2>2 DEF OwnRows
<1>19. ASSUME NEW k \in ListsOf(v.kind), v.kind # "artist"
       PROVE  PagedGood(lists[k], "view", n, k, n, d, b)
  <2>1. k = l
    BY <1>1, <1>2, <1>19, ListNames
  <2> QED BY <2>1, <1>7, <1>8, <1>19
<1>20. ViewGood(z, d, b)
  BY <1>1, <1>10, <1>11, <1>15, <1>16, <1>17, <1>18, <1>19 DEF ViewGood
<1> QED BY <1>5, <1>6, <1>9, <1>11, <1>20 DEF d, s, r

---------------------------------------------------------------------------
(* The views of every stack.                                               *)

LEMMA ViewsAnsweredWell ==
  ASSUME NEW views, NEW next, NEW c, NEW b, ViewsGood(views, next, c, b), MailGood(c, b),
         NEW r \in BagToSet(b), r.tag = "view", NEW result
  PROVE  ViewsGood(ViewsAnswered(views, r, result), next, c, BagRemove(b, r))
<1> DEFINE e == BagRemove(b, r)
           new == ViewsAnswered(views, r, result)
           one(s, i) == IF views[s][i].serial = r.number THEN ViewAnswered(views[s][i], r, result)
                                                         ELSE views[s][i]
<1>1. /\ views \in [Stacks -> Seq(ViewSet)]
      /\ \A s \in Stacks : \A i \in DOMAIN views[s] :
           views[s][i].serial < next /\ ViewGood(views[s][i], c, b)
      /\ \A q \in Out(c, b) : q.tag = "view" => q.number < next
  BY DEF ViewsGood
<1>2. Out(c, e) \subseteq Out(c, b)
  BY AnsweredOut
<1>3. ASSUME NEW s \in Stacks, NEW i \in DOMAIN views[s]
      PROVE  ViewGood(one(s, i), c, e) /\ one(s, i).serial = views[s][i].serial
  <2> DEFINE v == views[s][i]
  <2>1. ViewGood(v, c, b)
    BY <1>1
  <2>2. v \in ViewSet
    BY <2>1 DEF ViewGood
  <2> HIDE DEF v
  <2>3. CASE v.serial = r.number
    <3>1. ViewGood(ViewAnswered(v, r, result), c, e)
      BY <2>1, <2>3, ViewAnsweredWell
    <3>2. ViewAnswered(v, r, result).serial = v.serial
      BY <2>2 DEF ViewAnswered, ViewSet
    <3>3. one(s, i) = ViewAnswered(v, r, result)
      BY <2>3 DEF v
    <3> QED BY <3>1, <3>2, <3>3 DEF v
  <2>4. CASE v.serial # r.number
    <3>1. ViewGood(v, c, e)
      BY <2>1, <2>4, OtherViewAnswered
    <3>2. one(s, i) = v
      BY <2>4 DEF v
    <3> QED BY <3>1, <3>2 DEF v
  <2> QED BY <2>3, <2>4
<1>4. new = [s \in Stacks |-> [i \in DOMAIN views[s] |-> one(s, i)]]
  BY DEF ViewsAnswered
<1>5. \A s \in Stacks : \A i \in DOMAIN views[s] : one(s, i) \in ViewSet
  BY <1>3 DEF ViewGood
<1> HIDE DEF one, e
<1>6. \A s \in Stacks : new[s] = [i \in DOMAIN views[s] |-> one(s, i)]
  BY <1>4
<1>7. \A s \in Stacks : DOMAIN new[s] = DOMAIN views[s] /\ \A i \in DOMAIN views[s] : new[s][i] = one(s, i)
  BY <1>6
<1>8. new \in [Stacks -> Seq(ViewSet)]
  <2>1. ASSUME NEW s \in Stacks PROVE [i \in DOMAIN views[s] |-> one(s, i)] \in Seq(ViewSet)
    <3>1. Len(views[s]) \in Nat /\ DOMAIN views[s] = 1 .. Len(views[s])
      BY <1>1, LenProperties
    <3> QED BY <3>1, <1>5
  <2> QED BY <2>1, <1>4
<1> HIDE DEF new
<1>9. \A s \in Stacks : \A i \in DOMAIN new[s] :
        new[s][i].serial = views[s][i].serial /\ new[s][i].serial < next /\ ViewGood(new[s][i], c, e)
  BY <1>1, <1>3, <1>7
<1>10. \A s, t \in Stacks : \A i \in DOMAIN new[s], j \in DOMAIN new[t] :
         new[s][i].serial = new[t][j].serial => s = t /\ i = j
  BY <1>7, <1>9 DEF ViewsGood
<1> QED BY <1>1, <1>2, <1>8, <1>9, <1>10 DEF ViewsGood, new, e

LEMMA ViewsLostWell ==
  ASSUME NEW views, NEW next, NEW c, NEW b, ViewsGood(views, next, c, b)
  PROVE  ViewsGood(ViewsLost(views), next, c, b)
<1> DEFINE new == ViewsLost(views)
           one(s, i) == [views[s][i] EXCEPT !.phase = IF @ = "loading" THEN "failed" ELSE @]
<1>1. /\ views \in [Stacks -> Seq(ViewSet)]
      /\ \A s \in Stacks : \A i \in DOMAIN views[s] :
           views[s][i].serial < next /\ ViewGood(views[s][i], c, b)
      /\ \A q \in Out(c, b) : q.tag = "view" => q.number < next
  BY DEF ViewsGood
<1>3. ASSUME NEW s \in Stacks, NEW i \in DOMAIN views[s]
      PROVE  ViewGood(one(s, i), c, b) /\ one(s, i).serial = views[s][i].serial
  <2> DEFINE v == views[s][i]
  <2>1. ViewGood(v, c, b)
    BY <1>1
  <2>2. v \in ViewSet
    BY <2>1 DEF ViewGood
  <2> HIDE DEF v
  <2>3. ViewGood([v EXCEPT !.phase = IF @ = "loading" THEN "failed" ELSE @], c, b)
    BY <2>1, ViewLostWell
  <2>4. [v EXCEPT !.phase = IF @ = "loading" THEN "failed" ELSE @].serial = v.serial
    BY <2>2 DEF ViewSet
  <2> QED BY <2>3, <2>4 DEF v
<1>4. new = [s \in Stacks |-> [i \in DOMAIN views[s] |-> one(s, i)]]
  BY DEF ViewsLost
<1>5. \A s \in Stacks : \A i \in DOMAIN views[s] : one(s, i) \in ViewSet
  BY <1>3 DEF ViewGood
<1> HIDE DEF one
<1>6. \A s \in Stacks : new[s] = [i \in DOMAIN views[s] |-> one(s, i)]
  BY <1>4
<1>7. \A s \in Stacks : DOMAIN new[s] = DOMAIN views[s] /\ \A i \in DOMAIN views[s] : new[s][i] = one(s, i)
  BY <1>6
<1>8. new \in [Stacks -> Seq(ViewSet)]
  <2>1. ASSUME NEW s \in Stacks PROVE [i \in DOMAIN views[s] |-> one(s, i)] \in Seq(ViewSet)
    <3>1. Len(views[s]) \in Nat /\ DOMAIN views[s] = 1 .. Len(views[s])
      BY <1>1, LenProperties
    <3> QED BY <3>1, <1>5
  <2> QED BY <2>1, <1>4
<1> HIDE DEF new
<1>9. \A s \in Stacks : \A i \in DOMAIN new[s] :
        new[s][i].serial = views[s][i].serial /\ new[s][i].serial < next /\ ViewGood(new[s][i], c, b)
  BY <1>1, <1>3, <1>7
<1>10. \A s, t \in Stacks : \A i \in DOMAIN new[s], j \in DOMAIN new[t] :
         new[s][i].serial = new[t][j].serial => s = t /\ i = j
  BY <1>7, <1>9 DEF ViewsGood
<1> QED BY <1>1, <1>8, <1>9, <1>10 DEF ViewsGood, new

LEMMA ViewsKept ==
  ASSUME NEW views, NEW next, NEW c, NEW b, NEW d, NEW e, ViewsGood(views, next, c, b),
         Leaves("view", c, b, d, e)
  PROVE  ViewsGood(views, next, d, e)
<1>1. \A r \in Out(d, e) : r.tag = "view" => r \in Out(c, b)
  BY LeavesOut
<1>2. ASSUME NEW s \in Stacks, NEW i \in DOMAIN views[s] PROVE ViewGood(views[s][i], d, e)
  <2>1. ViewGood(views[s][i], c, b)
    BY DEF ViewsGood
  <2>2. \A n, l : /\ OutFor(d, e, "view", n, l) = OutFor(c, b, "view", n, l)
                  /\ Lone(c, b, "view", n, l) => Lone(d, e, "view", n, l)
    BY DEF Leaves
  <2> QED BY <2>1, <2>2, <1>1, ViewKept
<1>3. \A r \in Out(d, e) : r.tag = "view" => r.number < next
  BY <1>1 DEF ViewsGood
<1> QED BY <1>2, <1>3 DEF ViewsGood

(* What is asked for one view leaves the others as they are.               *)
LEMMA OtherViewAsked ==
  ASSUME NEW v, NEW c, NEW b, ViewGood(v, c, b), MailGood(c, b),
         NEW s \in Seq(Requests), NEW n, \A q \in ToSet(s) : q.number = n, v.serial # n
  PROVE  ViewGood(v, c \o s, b)
<1> DEFINE d == c \o s
<1>1. /\ Out(d, b) = Out(c, b) \cup ToSet(s)
      /\ \A l : (\A x \in ToSet(s) : ~Is(x, "view", v.serial, l)) =>
           /\ OutFor(d, b, "view", v.serial, l) = OutFor(c, b, "view", v.serial, l)
           /\ Lone(c, b, "view", v.serial, l) => Lone(d, b, "view", v.serial, l)
  BY AskedOut
<1>2. \A l : \A x \in ToSet(s) : ~Is(x, "view", v.serial, l)
  BY DEF Is
<1>3. \A r \in Out(d, b) : r.tag = "view" => r \in Out(c, b) \/ r.number # v.serial
  BY <1>1
<1> HIDE DEF d
<1>4. ViewGood(v, d, b)
  BY <1>1, <1>2, <1>3, ViewKept
<1> QED BY <1>4 DEF d

LEMMA ViewsOpenedWell ==
  ASSUME NEW views, NEW next \in Nat, NEW c, NEW b, ViewsGood(views, next, c, b), MailGood(c, b),
         NEW s \in Stacks, NEW kind \in Kinds
  PROVE  LET sent == <<Request("view", next, next, "all", 0)>>
         IN  /\ ViewsGood([views EXCEPT ![s] = Append(@, NewView(next, kind))], next + 1, c \o sent, b)
             /\ sent \in Seq(Requests) /\ \A q \in ToSet(sent) : q.tag = "view"
<1> DEFINE sent == <<Request("view", next, next, "all", 0)>>
           v == NewView(next, kind)
           d == c \o sent
           stack == Append(views[s], v)
           new == [views EXCEPT ![s] = stack]
<1>1. /\ views \in [Stacks -> Seq(ViewSet)]
      /\ \A t \in Stacks : \A i \in DOMAIN views[t] :
           views[t][i].serial < next /\ ViewGood(views[t][i], c, b)
      /\ \A q \in Out(c, b) : q.tag = "view" => q.number < next
  BY DEF ViewsGood
<1>2. /\ ViewGood(v, d, b) /\ v.serial = next /\ sent \in Seq(Requests)
      /\ \A q \in ToSet(sent) : q.tag = "view" /\ q.number = next
  BY <1>1, ViewOpenedWell
<1>3. v \in ViewSet
  BY <1>2 DEF ViewGood
<1> HIDE DEF sent, v
<1>4. Out(d, b) = Out(c, b) \cup ToSet(sent)
  BY <1>2, AskedOut
<1>5. \A t \in Stacks : \A i \in DOMAIN views[t] :
        /\ views[t][i].serial \in Nat /\ views[t][i].serial # next
        /\ ViewGood(views[t][i], d, b)
  <2>1. TAKE t \in Stacks
  <2>2. TAKE i \in DOMAIN views[t]
  <2>3. views[t][i].serial < next /\ ViewGood(views[t][i], c, b)
    BY <1>1
  <2>4. views[t][i].serial \in Nat
    BY <2>3, ViewFacts
  <2>5. views[t][i].serial # next
    BY <2>3, <2>4
  <2> HIDE DEF d
  <2>6. ViewGood(views[t][i], d, b)
    BY <2>3, <2>5, <1>2, OtherViewAsked DEF d
  <2> QED BY <2>4, <2>5, <2>6
<1>6. Len(views[s]) \in Nat /\ DOMAIN views[s] = 1 .. Len(views[s])
  BY <1>1, LenProperties
<1>7. /\ stack \in Seq(ViewSet) /\ DOMAIN stack = DOMAIN views[s] \cup {Len(views[s]) + 1}
      /\ stack[Len(views[s]) + 1] = v
      /\ \A i \in DOMAIN views[s] : stack[i] = views[s][i] /\ i # Len(views[s]) + 1
  <2>1. /\ stack \in Seq(ViewSet) /\ Len(stack) = Len(views[s]) + 1
        /\ \A i \in 1 .. Len(views[s]) : stack[i] = views[s][i]
        /\ stack[Len(views[s]) + 1] = v
    BY <1>1, <1>3, AppendProperties
  <2>2. DOMAIN stack = 1 .. (Len(views[s]) + 1)
    BY <2>1, LenProperties
  <2>3. 1 .. (Len(views[s]) + 1) = (1 .. Len(views[s])) \cup {Len(views[s]) + 1}
    BY <1>6
  <2>4. \A i \in DOMAIN views[s] : i # Len(views[s]) + 1
    BY <1>6
  <2> QED BY <2>1, <2>2, <2>3, <2>4, <1>6
<1> HIDE DEF stack, d
<1>8. new \in [Stacks -> Seq(ViewSet)] /\ new[s] = stack
      /\ \A t \in Stacks : t # s => new[t] = views[t]
  BY <1>1, <1>7
<1> HIDE DEF new
<1>9. ASSUME NEW t \in Stacks, NEW i \in DOMAIN new[t]
      PROVE  \/ i \in DOMAIN views[t] /\ new[t][i] = views[t][i]
             \/ t = s /\ i = Len(views[s]) + 1 /\ new[t][i] = v
  BY <1>7, <1>8
<1>10. \A t \in Stacks : \A i \in DOMAIN new[t] :
         new[t][i].serial < next + 1 /\ ViewGood(new[t][i], d, b)
  <2>1. next < next + 1 /\ \A m \in Nat : m < next => m < next + 1
    OBVIOUS
  <2> QED BY <2>1, <1>1, <1>2, <1>5, <1>9
<1>11. \A t, u \in Stacks : \A i \in DOMAIN new[t], j \in DOMAIN new[u] :
         new[t][i].serial = new[u][j].serial => t = u /\ i = j
  <2>1. TAKE t, u \in Stacks
  <2>2. TAKE i \in DOMAIN new[t], j \in DOMAIN new[u]
  <2>3. CASE i \in DOMAIN views[t] /\ new[t][i] = views[t][i]
    <3>1. CASE j \in DOMAIN views[u] /\ new[u][j] = views[u][j]
      BY <2>3, <3>1 DEF ViewsGood
    <3>2. CASE u = s /\ j = Len(views[s]) + 1 /\ new[u][j] = v
      BY <2>3, <3>2, <1>2, <1>5
    <3> QED BY <3>1, <3>2, <1>9
  <2>4. CASE t = s /\ i = Len(views[s]) + 1 /\ new[t][i] = v
    <3>1. CASE j \in DOMAIN views[u] /\ new[u][j] = views[u][j]
      BY <2>4, <3>1, <1>2, <1>5
    <3>2. CASE u = s /\ j = Len(views[s]) + 1 /\ new[u][j] = v
      BY <2>4, <3>2
    <3> QED BY <3>1, <3>2, <1>9
  <2> QED BY <2>3, <2>4, <1>9
<1>12. \A q \in Out(d, b) : q.tag = "view" => q.number < next + 1
  <2>1. Out(c, b) \subseteq Requests
    BY DEF MailGood, Out, ToSet, BagToSet
  <2>2. \A q \in Out(c, b) : q.number \in Nat
    BY <2>1 DEF Requests
  <2>3. next < next + 1 /\ \A m \in Nat : m < next => m < next + 1
    OBVIOUS
  <2> QED BY <2>2, <2>3, <1>1, <1>2, <1>4
<1>13. ViewsGood(new, next + 1, d, b)
  BY <1>8, <1>10, <1>11, <1>12 DEF ViewsGood
<1> QED BY <1>2, <1>13 DEF new, stack, d, sent, v

LEMMA FrontKeeps ==
  ASSUME NEW S, NEW s \in Seq(S), s # <<>>
  PROVE  /\ Front(s) \in Seq(S) /\ DOMAIN Front(s) \subseteq DOMAIN s
         /\ \A i \in DOMAIN Front(s) : Front(s)[i] = s[i]
         /\ Len(s) \in DOMAIN s /\ Last(s) = s[Len(s)]
<1> DEFINE r == SubSeq(s, 1, Len(s) - 1)
<1>1. Len(s) \in Nat \ {0} /\ DOMAIN s = 1 .. Len(s) /\ Len(s) - 1 \in 0 .. Len(s)
  BY LenProperties, EmptySeq
<1>2. r \in Seq(S) /\ Len(r) = Len(s) - 1 /\ \A i \in 1 .. (Len(s) - 1) : r[i] = s[i]
  BY <1>1, SubSeqProperties, ElementOfSeq
<1> HIDE DEF r
<1>3. DOMAIN r = 1 .. (Len(s) - 1)
  BY <1>2, LenProperties
<1>4. Front(s) = r
  BY DEF Front, r
<1> QED BY <1>1, <1>2, <1>3, <1>4 DEF Last

LEMMA ViewsClosedWell ==
  ASSUME NEW views, NEW next, NEW c, NEW b, ViewsGood(views, next, c, b),
         NEW s \in Stacks, views[s] # <<>>
  PROVE  ViewsGood([views EXCEPT ![s] = Front(@)], next, c, b)
<1> DEFINE front == Front(views[s])
           new == [views EXCEPT ![s] = front]
<1>1. views \in [Stacks -> Seq(ViewSet)]
  BY DEF ViewsGood
<1>2. front \in Seq(ViewSet) /\ DOMAIN front \subseteq DOMAIN views[s]
      /\ \A i \in DOMAIN front : front[i] = views[s][i]
  BY <1>1, FrontKeeps
<1> HIDE DEF front
<1>3. new \in [Stacks -> Seq(ViewSet)]
      /\ \A t \in Stacks : DOMAIN new[t] \subseteq DOMAIN views[t]
           /\ \A i \in DOMAIN new[t] : new[t][i] = views[t][i]
  BY <1>1, <1>2
<1> HIDE DEF new
<1>4. \A t \in Stacks : \A i \in DOMAIN new[t] :
        i \in DOMAIN views[t] /\ new[t][i] = views[t][i]
  BY <1>3
<1>5. ViewsGood(new, next, c, b)
  BY <1>3, <1>4 DEF ViewsGood
<1> QED BY <1>5 DEF new, front

(* A page of list l of the nth view of a stack is asked for: what it       *)
(* takes, what it leaves of the stacks and what is sent.                   *)
MayTurn(views, s, n, l) ==
  /\ s \in Stacks /\ n \in DOMAIN views[s] /\ views[s][n].phase = "done"
  /\ l \in DOMAIN views[s][n].lists /\ ~(views[s][n].lists[l].loading = TRUE)
Turning(views, s, n, l) == [views EXCEPT ![s][n].lists[l].loading = TRUE]
NextOf(v, l) == <<Request("view", v.serial, v.serial, l, Len(v.lists[l].rows))>>

LEMMA ViewsMoreWell ==
  ASSUME NEW views, NEW next, NEW c, NEW b, ViewsGood(views, next, c, b), MailGood(c, b),
         NEW s, NEW n, NEW l, MayTurn(views, s, n, l)
  PROVE  /\ ViewsGood(Turning(views, s, n, l), next, c \o NextOf(views[s][n], l), b)
         /\ NextOf(views[s][n], l) \in Seq(Requests)
         /\ \A q \in ToSet(NextOf(views[s][n], l)) : q.tag = "view"
<1> DEFINE v == views[s][n]
           sent == NextOf(v, l)
           d == c \o sent
           y == [v EXCEPT !.lists[l].loading = TRUE]
           stack == [views[s] EXCEPT ![n] = y]
           new == [views EXCEPT ![s] = stack]
<1>0. /\ s \in Stacks /\ n \in DOMAIN views[s] /\ views[s][n].phase = "done"
      /\ l \in DOMAIN views[s][n].lists /\ ~(views[s][n].lists[l].loading = TRUE)
  BY DEF MayTurn
<1> USE <1>0
<1>1. /\ views \in [Stacks -> Seq(ViewSet)]
      /\ \A t \in Stacks : \A i \in DOMAIN views[t] :
           views[t][i].serial < next /\ ViewGood(views[t][i], c, b)
      /\ \A q \in Out(c, b) : q.tag = "view" => q.number < next
      /\ \A t, u \in Stacks : \A i \in DOMAIN views[t], j \in DOMAIN views[u] :
           views[t][i].serial = views[u][j].serial => t = u /\ i = j
  BY DEF ViewsGood
<1>2. /\ ViewGood(y, d, b) /\ y.serial = v.serial /\ sent \in Seq(Requests)
      /\ \A q \in ToSet(sent) : q.tag = "view" /\ q.number = v.serial
  BY <1>1, ViewMoreWell DEF NextOf
<1>3. y \in ViewSet
  BY <1>2 DEF ViewGood
<1>4. Turning(views, s, n, l) = new
  BY DEF Turning
<1> HIDE DEF sent, y
<1>5. Out(d, b) = Out(c, b) \cup ToSet(sent)
  BY <1>2, AskedOut
<1> HIDE DEF d
<1>6. \A t \in Stacks : \A i \in DOMAIN views[t] :
        ~(t = s /\ i = n) => ViewGood(views[t][i], d, b)
  <2>1. TAKE t \in Stacks
  <2>2. TAKE i \in DOMAIN views[t]
  <2>3. ViewGood(views[t][i], c, b)
    BY <1>1
  <2>4. ~(t = s /\ i = n) => views[t][i].serial # v.serial
    BY <1>1
  <2> HIDE DEF v
  <2> QED BY <2>3, <2>4, <1>2, OtherViewAsked DEF d
<1>7. /\ stack \in Seq(ViewSet) /\ DOMAIN stack = DOMAIN views[s] /\ stack[n] = y
      /\ \A i \in DOMAIN views[s] : i # n => stack[i] = views[s][i]
  <2>1. views[s] \in Seq(ViewSet)
    BY <1>1
  <2> HIDE DEF v
  <2> QED BY <2>1, <1>3
<1> HIDE DEF stack
<1>8. new \in [Stacks -> Seq(ViewSet)] /\ new[s] = stack
      /\ \A t \in Stacks : t # s => new[t] = views[t]
  BY <1>1, <1>7
<1> HIDE DEF new
<1>9. \A t \in Stacks : DOMAIN new[t] = DOMAIN views[t]
        /\ \A i \in DOMAIN views[t] :
             new[t][i].serial = views[t][i].serial /\ ViewGood(new[t][i], d, b)
  <2>1. TAKE t \in Stacks
  <2>2. DOMAIN new[t] = DOMAIN views[t]
    BY <1>7, <1>8
  <2>3. ASSUME NEW i \in DOMAIN views[t]
        PROVE  new[t][i].serial = views[t][i].serial /\ ViewGood(new[t][i], d, b)
    <3>1. CASE t = s /\ i = n
      BY <3>1, <1>2, <1>7, <1>8
    <3>2. CASE ~(t = s /\ i = n)
      <4>1. new[t][i] = views[t][i]
        BY <3>2, <1>7, <1>8
      <4> QED BY <4>1, <3>2, <1>6
    <3> QED BY <3>1, <3>2
  <2> QED BY <2>2, <2>3
<1>10. \A q \in Out(d, b) : q.tag = "view" => q.number < next
  BY <1>1, <1>2, <1>5
<1> HIDE DEF v
<1>11. \A t, u \in Stacks : \A i \in DOMAIN new[t], j \in DOMAIN new[u] :
        new[t][i].serial = new[u][j].serial => t = u /\ i = j
  BY <1>1, <1>9
<1>12. \A t \in Stacks : \A i \in DOMAIN new[t] :
         new[t][i].serial < next /\ ViewGood(new[t][i], d, b)
  BY SMTT(30), <1>1, <1>9
<1>13. ViewsGood(new, next, d, b)
  BY <1>8, <1>10, <1>11, <1>12 DEF ViewsGood
<1> QED BY <1>2, <1>4, <1>13 DEF d, sent, v

---------------------------------------------------------------------------
(* The library.                                                            *)

LEMMA PartsInOrder ==
  LET parts == SetToSeq(Parts)
  IN  parts \in Seq(Parts) /\ ToSet(parts) = Parts
      /\ \A i, j \in DOMAIN parts : parts[i] = parts[j] => i = j
BY FewInOrder, TuiAssumption DEF Distinct

LEMMA LibraryIsAsked ==
  ASSUME NEW n \in Nat
  PROVE  LET sent == LibraryRequests(n)
         IN  /\ sent \in Seq(Requests)
             /\ \A q \in ToSet(sent) :
                  q.tag = "library" /\ q.number = n /\ q.list \in Parts /\ q.of = None /\ q.at = 0
             /\ \A p \in Parts : \E q \in ToSet(sent) : Is(q, "library", n, p)
             /\ \A p : \A i, j \in DOMAIN sent :
                  Is(sent[i], "library", n, p) /\ Is(sent[j], "library", n, p) => i = j
<1> DEFINE parts == SetToSeq(Parts)
           one(p) == Request("library", n, None, p, 0)
           sent == [i \in DOMAIN parts |-> one(parts[i])]
<1>1. /\ parts \in Seq(Parts) /\ ToSet(parts) = Parts
      /\ \A i, j \in DOMAIN parts : parts[i] = parts[j] => i = j
  BY PartsInOrder
<1> HIDE DEF parts
<1>2. \A p : /\ one(p).tag = "library" /\ one(p).number = n /\ one(p).list = p
             /\ one(p).of = None /\ one(p).at = 0
  BY DEF Request
<1>3. \A p \in Parts : one(p) \in Requests
  BY DEF Request, Requests, Names, Tags, None
<1> HIDE DEF one
<1>4. Len(parts) \in Nat /\ DOMAIN parts = 1 .. Len(parts) /\ \A i \in DOMAIN parts : parts[i] \in Parts
  BY <1>1, LenProperties, ElementOfSeq
<1>5. sent \in Seq(Requests)
  BY <1>3, <1>4
<1>6. DOMAIN sent = DOMAIN parts /\ \A i \in DOMAIN parts : sent[i] = one(parts[i])
  OBVIOUS
<1> HIDE DEF sent
<1>7. \A q \in ToSet(sent) :
        q.tag = "library" /\ q.number = n /\ q.list \in Parts /\ q.of = None /\ q.at = 0
  BY <1>2, <1>4, <1>6 DEF ToSet
<1>8. \A p \in Parts : \E q \in ToSet(sent) : Is(q, "library", n, p)
  BY <1>1, <1>2, <1>6 DEF ToSet, Is
<1>9. \A p : \A i, j \in DOMAIN sent :
        Is(sent[i], "library", n, p) /\ Is(sent[j], "library", n, p) => i = j
  BY <1>1, <1>2, <1>6 DEF Is
<1>10. LibraryRequests(n) = sent
  BY DEF LibraryRequests, sent, one, parts
<1> QED BY <1>5, <1>7, <1>8, <1>9, <1>10

LEMMA LibraryFacts ==
  ASSUME NEW x, NEW c, NEW b, LibraryGood(x, c, b)
  PROVE  LET g == x.generation
         IN  /\ x \in Libraries /\ g \in Nat /\ x.parts \in [Parts -> PartSet]
             /\ x = [generation |-> g, parts |-> x.parts]
             /\ \A p \in Parts :
                  /\ x.parts[p] \in PartSet
                  /\ x.parts[p] = [phase |-> x.parts[p].phase, list |-> x.parts[p].list]
                  /\ x.parts[p].phase \in Phases
                  /\ x.parts[p].list \in Lists /\ p \in Names /\ p # "all"
                  /\ PartGood(x.parts[p], p, g, c, b)
                  /\ ShowsInOrder(x.parts[p].list, None, p)
                  /\ Lone(c, b, "library", g, p) /\ Lone(c, b, "library_more", g, p)
                  /\ OutFor(c, b, "library", g, p) # {} => x.parts[p].phase = "loading"
             /\ \A r \in Out(c, b) : r.tag \in {"library", "library_more"} =>
                  r.number <= g /\ r.list \in Parts
<1>1. x \in Libraries /\ \A p \in Parts : PartGood(x.parts[p], p, x.generation, c, b)
  BY DEF LibraryGood
<1>2. x.generation \in Nat /\ x.parts \in [Parts -> PartSet] /\ x = [generation |-> x.generation, parts |-> x.parts]
  BY <1>1 DEF Libraries
<1>3. \A p \in Parts : x.parts[p] \in PartSet /\ p \in Names /\ p # "all"
  BY <1>2, TuiAssumption DEF Names
<1>4. \A y \in PartSet : y = [phase |-> y.phase, list |-> y.list] /\ y.phase \in Phases /\ y.list \in Lists
  BY DEF PartSet
<1>5. \A p \in Parts :
        /\ ShowsInOrder(x.parts[p].list, None, p)
        /\ Lone(c, b, "library", x.generation, p) /\ Lone(c, b, "library_more", x.generation, p)
        /\ OutFor(c, b, "library", x.generation, p) # {} => x.parts[p].phase = "loading"
  BY <1>1 DEF PartGood, PagedGood
<1> QED BY <1>1, <1>2, <1>3, <1>4, <1>5 DEF LibraryGood

LEMMA PartKept ==
  ASSUME NEW part, NEW p, NEW n, NEW c, NEW b, NEW d, NEW e, PartGood(part, p, n, c, b),
         OutFor(d, e, "library", n, p) = OutFor(c, b, "library", n, p),
         Lone(d, e, "library", n, p),
         OutFor(d, e, "library_more", n, p) = OutFor(c, b, "library_more", n, p),
         Lone(d, e, "library_more", n, p)
  PROVE  PartGood(part, p, n, d, e)
<1>1. PagedGood(part.list, "library_more", n, p, None, d, e)
  BY PagedKept DEF PartGood
<1> QED BY <1>1 DEF PartGood

LEMMA LibraryKept ==
  ASSUME NEW x, NEW c, NEW b, NEW d, NEW e, LibraryGood(x, c, b),
         Leaves("library", c, b, d, e), Leaves("library_more", c, b, d, e)
  PROVE  LibraryGood(x, d, e)
<1>1. \A r \in Out(d, e) : r.tag \in {"library", "library_more"} => r \in Out(c, b)
  BY LeavesOut
<1>2. ASSUME NEW p \in Parts PROVE PartGood(x.parts[p], p, x.generation, d, e)
  <2>1. /\ PartGood(x.parts[p], p, x.generation, c, b)
        /\ Lone(c, b, "library", x.generation, p) /\ Lone(c, b, "library_more", x.generation, p)
    BY LibraryFacts
  <2>2. \A l : /\ OutFor(d, e, "library", x.generation, l) = OutFor(c, b, "library", x.generation, l)
               /\ Lone(c, b, "library", x.generation, l) => Lone(d, e, "library", x.generation, l)
               /\ OutFor(d, e, "library_more", x.generation, l)
                    = OutFor(c, b, "library_more", x.generation, l)
               /\ Lone(c, b, "library_more", x.generation, l) =>
                    Lone(d, e, "library_more", x.generation, l)
    BY DEF Leaves
  <2> QED BY <2>1, <2>2, PartKept
<1> QED BY <1>1, <1>2 DEF LibraryGood

(* A library made of its parts.                                            *)
LEMMA LibraryMade ==
  ASSUME NEW n \in Nat, NEW parts \in [Parts -> PartSet], NEW c, NEW b,
         \A p \in Parts : PartGood(parts[p], p, n, c, b),
         \A r \in Out(c, b) : r.tag \in {"library", "library_more"} =>
           r.number <= n /\ r.list \in Parts
  PROVE  LibraryGood([generation |-> n, parts |-> parts], c, b)
<1> DEFINE x == [generation |-> n, parts |-> parts]
<1>1. x \in Libraries /\ x.generation = n /\ x.parts = parts
  BY DEF Libraries
<1> HIDE DEF x
<1> QED BY <1>1 DEF LibraryGood, x

(* All of it is asked for.                                                 *)
LEMMA LibraryLoads ==
  ASSUME NEW n \in Nat, NEW parts \in [Parts -> PartSet], NEW c, NEW b, MailGood(c, b),
         \A p \in Parts :
           /\ parts[p].phase = "loading" /\ ShowsInOrder(parts[p].list, None, p)
           /\ OutFor(c, b, "library", n, p) = {} /\ OutFor(c, b, "library_more", n, p) = {},
         \A r \in Out(c, b) : r.tag \in {"library", "library_more"} =>
           r.number <= n /\ r.list \in Parts
  PROVE  LibraryGood([generation |-> n, parts |-> parts], c \o LibraryRequests(n), b)
<1> DEFINE sent == LibraryRequests(n)
           d == c \o sent
<1>1. /\ sent \in Seq(Requests)
      /\ \A q \in ToSet(sent) :
           q.tag = "library" /\ q.number = n /\ q.list \in Parts /\ q.of = None /\ q.at = 0
      /\ \A p \in Parts : \E q \in ToSet(sent) : Is(q, "library", n, p)
      /\ \A p : \A i, j \in DOMAIN sent :
           Is(sent[i], "library", n, p) /\ Is(sent[j], "library", n, p) => i = j
  BY LibraryIsAsked
<1> HIDE DEF sent
<1>2. /\ Out(d, b) = Out(c, b) \cup ToSet(sent)
      /\ \A tag, m, l : (\A x \in ToSet(sent) : ~Is(x, tag, m, l)) =>
           OutFor(d, b, tag, m, l) = OutFor(c, b, tag, m, l)
      /\ \A tag, m, l : OutFor(c, b, tag, m, l) = {}
           /\ (\A i, j \in DOMAIN sent : Is(sent[i], tag, m, l) /\ Is(sent[j], tag, m, l) => i = j)
           => Lone(d, b, tag, m, l)
  BY <1>1, AskedOut
<1>3. \A l : \A x \in ToSet(sent) : ~Is(x, "library_more", n, l)
  BY <1>1 DEF Is
<1> HIDE DEF d
<1>4. ASSUME NEW p \in Parts PROVE PartGood(parts[p], p, n, d, b)
  <2>1. OutFor(d, b, "library_more", n, p) = {}
    BY <1>2, <1>3
  <2>2. PagedGood(parts[p].list, "library_more", n, p, None, d, b)
    BY <2>1, PagedIdle
  <2>3. Lone(d, b, "library", n, p)
    BY <1>1, <1>2
  <2>4. OutFor(d, b, "library", n, p) # {}
    BY <1>1, <1>2 DEF OutFor
  <2>5. \A q \in OutFor(d, b, "library", n, p) : q \in ToSet(sent)
    BY <1>2 DEF OutFor
  <2> QED BY <2>1, <2>2, <2>3, <2>4, <2>5, <1>1 DEF PartGood
<1>5. \A r \in Out(d, b) : r.tag \in {"library", "library_more"} => r.number <= n /\ r.list \in Parts
  BY <1>1, <1>2
<1> QED BY <1>4, <1>5, LibraryMade DEF d, sent

(* It is first shown.                                                      *)
LEMMA LibraryFirstWell ==
  ASSUME NEW c, NEW b, LibraryGood(NoLibrary, c, b), MailGood(c, b)
  PROVE  LibraryGood(Library(0, "loading"), c \o LibraryRequests(0), b)
<1> DEFINE parts == [p \in Parts |-> [phase |-> "loading", list |-> NoList]]
<1>1. NoLibrary.generation = 0
      /\ \A p \in Parts : NoLibrary.parts[p].phase = "none" /\ NoLibrary.parts[p].list = NoList
  BY DEF NoLibrary, Library
<1>2. /\ \A p \in Parts : PartGood(NoLibrary.parts[p], p, 0, c, b)
      /\ \A r \in Out(c, b) : r.tag \in {"library", "library_more"} =>
           r.number <= 0 /\ r.list \in Parts
  BY <1>1, LibraryFacts
<1>3. parts \in [Parts -> PartSet]
  <2>1. "loading" \in Phases
    BY DEF Phases
  <2> QED BY <2>1, NoListBuilt DEF PartSet
<1>4. \A p \in Parts : parts[p].phase = "loading" /\ parts[p].list = NoList
  OBVIOUS
<1> HIDE DEF parts
<1>5. ASSUME NEW p \in Parts
      PROVE  OutFor(c, b, "library", 0, p) = {} /\ OutFor(c, b, "library_more", 0, p) = {}
  <2>1. PartGood(NoLibrary.parts[p], p, 0, c, b)
    BY <1>2
  <2>2. OutFor(c, b, "library", 0, p) = {}
    BY <2>1, <1>1 DEF PartGood
  <2>3. PagedGood(NoList, "library_more", 0, p, None, c, b)
    BY <2>1, <1>1 DEF PartGood
  <2> QED BY <2>2, <2>3, NoListBuilt, NotLoadingIdle
<1>6. \A p \in Parts : ShowsInOrder(parts[p].list, None, p)
  BY <1>4, NoListBuilt DEF ShowsInOrder
<1>7. LibraryGood([generation |-> 0, parts |-> parts], c \o LibraryRequests(0), b)
  BY <1>2, <1>3, <1>4, <1>5, <1>6, LibraryLoads
<1> QED BY <1>7 DEF Library, parts

(* It is loaded again.                                                     *)
LEMMA ReloadingWell ==
  ASSUME NEW x, NEW c, NEW b, LibraryGood(x, c, b), MailGood(c, b)
  PROVE  /\ LibraryGood(Reloading(x), c \o LibraryRequests(Reloading(x).generation), b)
         /\ Reloading(x).generation = x.generation + 1
<1> DEFINE g == x.generation
           parts == [p \in Parts |-> [x.parts[p] EXCEPT !.phase = "loading"]]
<1>1. /\ g \in Nat /\ x.parts \in [Parts -> PartSet]
      /\ \A p \in Parts : x.parts[p] \in PartSet /\ ShowsInOrder(x.parts[p].list, None, p)
      /\ \A r \in Out(c, b) : r.tag \in {"library", "library_more"} =>
           r.number <= g /\ r.list \in Parts
  BY LibraryFacts
<1>2. g + 1 \in Nat /\ g < g + 1
  BY <1>1
<1>3. \A l : OutFor(c, b, "library", g + 1, l) = {}
  BY <1>1, <1>2, NoneAsked
<1>4. \A l : OutFor(c, b, "library_more", g + 1, l) = {}
  BY <1>1, <1>2, NoneAsked
<1>5. \A y \in PartSet : LET z == [y EXCEPT !.phase = "loading"]
                         IN  z \in PartSet /\ z.phase = "loading" /\ z.list = y.list
  BY DEF PartSet, Phases
<1>6. /\ parts \in [Parts -> PartSet]
      /\ \A p \in Parts : parts[p].phase = "loading" /\ parts[p].list = x.parts[p].list
  BY <1>1, <1>5
<1> HIDE DEF parts
<1>7. \A r \in Out(c, b) : r.tag \in {"library", "library_more"} =>
        r.number <= g + 1 /\ r.list \in Parts
  <2>1. Out(c, b) \subseteq Requests
    BY DEF MailGood, Out, ToSet, BagToSet
  <2>2. \A q \in Out(c, b) : q.number \in Nat
    BY <2>1 DEF Requests
  <2> QED BY <2>2, <1>1
<1>8. \A p \in Parts : ShowsInOrder(parts[p].list, None, p)
  BY <1>1, <1>6 DEF ShowsInOrder
<1>9. LibraryGood([generation |-> g + 1, parts |-> parts], c \o LibraryRequests(g + 1), b)
  BY <1>2, <1>3, <1>4, <1>6, <1>7, <1>8, LibraryLoads
<1>10. Reloading(x) = [generation |-> g + 1, parts |-> parts]
  BY DEF Reloading, parts
<1> QED BY <1>9, <1>10

(* The connection goes.                                                    *)
LEMMA LibraryLostWell ==
  ASSUME NEW x, NEW c, NEW b, LibraryGood(x, c, b), MailGood(c, b)
  PROVE  LibraryGood(LibraryLost(x), c, b)
<1> DEFINE g == x.generation
           parts == [p \in Parts |-> [x.parts[p] EXCEPT
                                        !.phase = IF @ = "loading" THEN "failed" ELSE @]]
<1>1. /\ g \in Nat /\ x.parts \in [Parts -> PartSet]
      /\ \A p \in Parts : x.parts[p] \in PartSet /\ ShowsInOrder(x.parts[p].list, None, p)
      /\ \A r \in Out(c, b) : r.tag \in {"library", "library_more"} =>
           r.number <= g /\ r.list \in Parts
  BY LibraryFacts
<1>2. CASE ~\E p \in Parts : x.parts[p].phase = "loading"
  BY <1>2 DEF LibraryLost
<1>3. CASE \E p \in Parts : x.parts[p].phase = "loading"
  <2>1. LibraryLost(x) = [generation |-> g + 1, parts |-> parts]
    BY <1>3 DEF LibraryLost
  <2>2. g + 1 \in Nat /\ g < g + 1
    BY <1>1
  <2>3. \A l : OutFor(c, b, "library", g + 1, l) = {}
    BY <1>1, <2>2, NoneAsked
  <2>4. \A l : OutFor(c, b, "library_more", g + 1, l) = {}
    BY <1>1, <2>2, NoneAsked
  <2>5. \A y \in PartSet : LET z == [y EXCEPT !.phase = IF @ = "loading" THEN "failed" ELSE @]
                           IN  z \in PartSet /\ z.phase # "loading" /\ z.list = y.list
    BY DEF PartSet, Phases
  <2>6. /\ parts \in [Parts -> PartSet]
        /\ \A p \in Parts : parts[p].phase # "loading" /\ parts[p].list = x.parts[p].list
    BY <1>1, <2>5
  <2> HIDE DEF parts
  <2>7. \A r \in Out(c, b) : r.tag \in {"library", "library_more"} =>
          r.number <= g + 1 /\ r.list \in Parts
    <3>1. Out(c, b) \subseteq Requests
      BY DEF MailGood, Out, ToSet, BagToSet
    <3>2. \A q \in Out(c, b) : q.number \in Nat
      BY <3>1 DEF Requests
    <3> QED BY <3>2, <1>1
  <2>8. ASSUME NEW p \in Parts PROVE PartGood(parts[p], p, g + 1, c, b)
    <3>1. ShowsInOrder(parts[p].list, None, p)
      BY <1>1, <2>6 DEF ShowsInOrder
    <3>2. PagedGood(parts[p].list, "library_more", g + 1, p, None, c, b)
      BY <3>1, <2>4, PagedIdle
    <3>3. Lone(c, b, "library", g + 1, p)
      BY <2>3, NoneIsLone
    <3> QED BY <3>2, <3>3, <2>3, <2>6 DEF PartGood
  <2> QED BY <2>1, <2>2, <2>6, <2>7, <2>8, LibraryMade
<1> QED BY <1>2, <1>3

(* A part of it, or a page of one, comes or fails.                         *)
LEMMA PartRecord ==
  ASSUME NEW part \in PartSet, NEW l
  PROVE  [part EXCEPT !.list = l] = [phase |-> part.phase, list |-> l]
BY DEF PartSet

LEMMA PartMade ==
  ASSUME NEW x \in Libraries, NEW p \in Parts, NEW part \in PartSet
  PROVE  /\ [x EXCEPT !.parts[p] = part]
              = [generation |-> x.generation, parts |-> [x.parts EXCEPT ![p] = part]]
         /\ [x.parts EXCEPT ![p] = part] \in [Parts -> PartSet]
         /\ [x.parts EXCEPT ![p] = part][p] = part
         /\ \A q \in Parts : q # p => [x.parts EXCEPT ![p] = part][q] = x.parts[q]
<1>1. x.parts \in [Parts -> PartSet]
  BY DEF Libraries
<1>2. [x EXCEPT !.parts[p] = part]
        = [generation |-> x.generation, parts |-> [x.parts EXCEPT ![p] = part]]
  BY DEF Libraries
<1> QED BY <1>1, <1>2

LEMMA PartChanged ==
  ASSUME NEW x, NEW c, NEW b, NEW d, NEW e, LibraryGood(x, c, b),
         NEW p \in Parts, NEW part \in PartSet, PartGood(part, p, x.generation, d, e),
         \A r \in Out(d, e) : r.tag \in {"library", "library_more"} =>
           r.number <= x.generation /\ r.list \in Parts,
         \A tag \in {"library", "library_more"}, q \in Parts : q # p =>
           /\ OutFor(d, e, tag, x.generation, q) = OutFor(c, b, tag, x.generation, q)
           /\ Lone(c, b, tag, x.generation, q) => Lone(d, e, tag, x.generation, q)
  PROVE  LibraryGood([x EXCEPT !.parts[p] = part], d, e)
<1> DEFINE g == x.generation
           parts == [x.parts EXCEPT ![p] = part]
<1>1. /\ x \in Libraries /\ g \in Nat
      /\ \A q \in Parts :
           /\ PartGood(x.parts[q], q, g, c, b)
           /\ Lone(c, b, "library", g, q) /\ Lone(c, b, "library_more", g, q)
  BY LibraryFacts
<1>2. /\ [x EXCEPT !.parts[p] = part] = [generation |-> g, parts |-> parts]
      /\ parts \in [Parts -> PartSet] /\ parts[p] = part
      /\ \A q \in Parts : q # p => parts[q] = x.parts[q]
  BY <1>1, PartMade
<1> HIDE DEF parts
<1>3. ASSUME NEW q \in Parts PROVE PartGood(parts[q], q, g, d, e)
  <2>1. CASE q = p
    BY <2>1, <1>2
  <2>2. CASE q # p
    <3>1. PartGood(x.parts[q], q, g, d, e)
      BY <2>2, <1>1, PartKept
    <3> QED BY <3>1, <2>2, <1>2
  <2> QED BY <2>1, <2>2
<1>4. LibraryGood([generation |-> g, parts |-> parts], d, e)
  BY <1>1, <1>2, <1>3, LibraryMade
<1> QED BY <1>2, <1>4

LEMMA LibraryAnsweredWell ==
  ASSUME NEW x, NEW c, NEW b, LibraryGood(x, c, b), MailGood(c, b),
         NEW r \in BagToSet(b), r.tag \in {"library", "library_more"}, NEW result
  PROVE  LibraryGood(LibraryAnswered(x, r, result), c, BagRemove(b, r))
<1> DEFINE e == BagRemove(b, r)
           g == x.generation
           p == r.list
           part == x.parts[p]
<1>1. /\ x \in Libraries /\ g \in Nat
      /\ \A q \in Parts :
           /\ x.parts[q] \in PartSet /\ x.parts[q].list \in Lists /\ x.parts[q].phase \in Phases
           /\ x.parts[q] = [phase |-> x.parts[q].phase, list |-> x.parts[q].list]
           /\ q \in Names
           /\ PartGood(x.parts[q], q, g, c, b)
           /\ Lone(c, b, "library", g, q) /\ Lone(c, b, "library_more", g, q)
           /\ OutFor(c, b, "library", g, q) # {} => x.parts[q].phase = "loading"
      /\ \A q \in Out(c, b) : q.tag \in {"library", "library_more"} =>
           q.number <= g /\ q.list \in Parts
  BY LibraryFacts
<1>2. /\ r \in Requests /\ r \in Out(c, b) /\ Out(c, e) \subseteq Out(c, b)
      /\ \A tag, l : Lone(c, b, tag, g, l) => Lone(c, e, tag, g, l)
      /\ \A tag, l : Lone(c, b, tag, g, l) /\ Is(r, tag, g, l) => OutFor(c, e, tag, g, l) = {}
      /\ \A tag, l : ~Is(r, tag, g, l) => OutFor(c, e, tag, g, l) = OutFor(c, b, tag, g, l)
  BY AnsweredOut
<1>3. p \in Parts
  BY <1>1, <1>2
<1>4. \A q \in Out(c, e) : q.tag \in {"library", "library_more"} =>
        q.number <= g /\ q.list \in Parts
  BY <1>1, <1>2
<1> HIDE DEF e
<1>5. CASE r.number # g
  <2>1. LibraryAnswered(x, r, result) = x
    BY <1>5 DEF LibraryAnswered
  <2>2. \A tag, l : ~Is(r, tag, g, l)
    BY <1>5 DEF Is
  <2>3. ASSUME NEW q \in Parts PROVE PartGood(x.parts[q], q, g, c, e)
    BY <2>2, <1>1, <1>2, PartKept
  <2> QED BY <2>1, <2>3, <1>1, <1>4 DEF LibraryGood, e
<1>6. ASSUME r.number = g, NEW new \in PartSet, PartGood(new, p, g, c, e)
      PROVE  LibraryGood([x EXCEPT !.parts[p] = new], c, e)
  <2>1. \A tag \in {"library", "library_more"}, q \in Parts : q # p =>
          /\ OutFor(c, e, tag, g, q) = OutFor(c, b, tag, g, q)
          /\ Lone(c, b, tag, g, q) => Lone(c, e, tag, g, q)
    BY <1>2 DEF Is
  <2> QED BY <2>1, <1>3, <1>4, <1>6, PartChanged
<1>7. CASE r.number = g /\ r.tag = "library_more"
  <2> DEFINE closed == [part.list EXCEPT !.loading = FALSE]
             grown == Grown(part.list, Page(r, p, result))
  <2>1. Is(r, "library_more", g, p) /\ ~Is(r, "library", g, p)
    BY <1>7 DEF Is
  <2>2. /\ PagedGood(grown, "library_more", g, p, None, c, e)
        /\ PagedGood(closed, "library_more", g, p, None, c, e)
        /\ OutFor(c, e, "library_more", g, p) = {}
    <3>1. PagedGood(part.list, "library_more", g, p, None, c, b)
      BY <1>1, <1>3 DEF PartGood
    <3> QED BY <3>1, <2>1, <1>1, <1>3, PagedAnswered DEF e
  <2>3. part.phase # "loading" /\ OutFor(c, e, "library", g, p) = OutFor(c, b, "library", g, p)
        /\ Lone(c, e, "library", g, p)
    <3>1. r \in OutFor(c, b, "library_more", g, p)
      BY <2>1, <1>2 DEF OutFor
    <3>2. PartGood(part, p, g, c, b)
      BY <1>1, <1>3
    <3>3. part.phase # "loading"
      BY <3>1, <3>2 DEF PartGood
    <3> QED BY <3>3, <2>1, <1>1, <1>2, <1>3
  <2>4. closed \in Lists
    BY <1>1, <1>3, FlagBuilt
  <2>5. grown \in Lists
    BY <1>1, <1>2, <1>3, GrownBuilt
  <2>6. ASSUME NEW list \in Lists, PagedGood(list, "library_more", g, p, None, c, e)
        PROVE  LibraryGood([x EXCEPT !.parts[p] = [phase |-> part.phase, list |-> list]], c, e)
    <3> DEFINE new == [phase |-> part.phase, list |-> list]
    <3>1. new \in PartSet /\ new.phase = part.phase /\ new.list = list
      BY <1>1, <1>3 DEF PartSet
    <3> HIDE DEF new
    <3>2. OutFor(c, e, "library", g, p) = {}
      BY <2>3, <1>1, <1>3
    <3>3. PartGood(new, p, g, c, e)
      BY <3>1, <3>2, <2>3, <2>6 DEF PartGood
    <3>4. LibraryGood([x EXCEPT !.parts[p] = new], c, e)
      BY <3>1, <3>3, <1>6, <1>7
    <3> QED BY <3>4 DEF new
  <2>7. \A list : [x EXCEPT !.parts[p].list = list]
                    = [x EXCEPT !.parts[p] = [phase |-> part.phase, list |-> list]]
    <3>1. TAKE list
    <3>2. [x.parts[p] EXCEPT !.list = list] = [phase |-> part.phase, list |-> list]
      BY <1>1, <1>3, PartRecord
    <3>3. [x EXCEPT !.parts[p].list = list] = [x EXCEPT !.parts[p] = [x.parts[p] EXCEPT !.list = list]]
      OBVIOUS
    <3> QED BY <3>2, <3>3
  <2>8. CASE result = "error"
    <3>1. LibraryAnswered(x, r, result) = [x EXCEPT !.parts[p].list = closed]
      BY <1>7, <2>8 DEF LibraryAnswered
    <3> HIDE DEF closed
    <3> QED BY <3>1, <2>2, <2>4, <2>6, <2>7 DEF e
  <2>9. CASE result # "error"
    <3>1. LibraryAnswered(x, r, result) = [x EXCEPT !.parts[p].list = grown]
      BY <1>7, <2>9 DEF LibraryAnswered
    <3> HIDE DEF grown
    <3> QED BY <3>1, <2>2, <2>5, <2>6, <2>7 DEF e
  <2> QED BY <2>8, <2>9
<1>8. CASE r.number = g /\ r.tag = "library"
  <2>1. Is(r, "library", g, p) /\ ~Is(r, "library_more", g, p)
    BY <1>8 DEF Is
  <2>2. r \in OutFor(c, b, "library", g, p)
    BY <2>1, <1>2 DEF OutFor
  <2>3. PartGood(part, p, g, c, b) /\ part.phase = "loading"
    BY <2>2, <1>1, <1>3
  <2>4. r.of = None /\ r.at = 0 /\ OutFor(c, b, "library_more", g, p) = {}
        /\ ShowsInOrder(part.list, None, p)
    BY <2>2, <2>3 DEF PartGood, PagedGood
  <2>5. OutFor(c, e, "library", g, p) = {} /\ OutFor(c, e, "library_more", g, p) = {}
    BY <2>1, <2>4, <1>1, <1>2, <1>3
  <2>6. ASSUME NEW new \in PartSet, new.phase # "loading", ShowsInOrder(new.list, None, p)
        PROVE  LibraryGood([x EXCEPT !.parts[p] = new], c, e)
    <3>1. PagedGood(new.list, "library_more", g, p, None, c, e)
      BY <2>5, <2>6, PagedIdle
    <3>2. Lone(c, e, "library", g, p)
      BY <2>5, NoneIsLone
    <3>3. PartGood(new, p, g, c, e)
      BY <3>1, <3>2, <2>5, <2>6 DEF PartGood
    <3> QED BY <3>3, <2>6, <1>6, <1>8
  <2>7. CASE result = "error"
    <3> DEFINE new == [part EXCEPT !.phase = "failed"]
    <3>1. LibraryAnswered(x, r, result) = [x EXCEPT !.parts[p] = new]
      BY <1>8, <2>7 DEF LibraryAnswered
    <3>2. part \in PartSet
      BY <1>1, <1>3
    <3>3. new \in PartSet /\ new.phase # "loading" /\ new.list = part.list
      BY <3>2 DEF PartSet, Phases
    <3> HIDE DEF new
    <3>4. ShowsInOrder(new.list, None, p)
      BY <3>3, <2>4
    <3> QED BY <3>1, <3>3, <3>4, <2>6 DEF e
  <2>8. CASE result # "error"
    <3> DEFINE list == FromPage(Page(r, p, result))
               new == [phase |-> "done", list |-> list]
    <3>1. LibraryAnswered(x, r, result) = [x EXCEPT !.parts[p] = new]
      BY <1>8, <2>8 DEF LibraryAnswered
    <3>2. list \in Lists
      BY <1>1, <1>2, <1>3, FirstBuilt
    <3>3. ShowsInOrder(list, None, p)
      <4>1. ShowsInOrder(list, r.of, p)
        BY <2>4, FirstInOrder, Zenon
      <4> HIDE DEF list
      <4> QED BY <4>1, <2>4
    <3> HIDE DEF list
    <3>4. new \in PartSet /\ new.phase # "loading" /\ new.list = list
      BY <3>2 DEF PartSet, Phases
    <3> HIDE DEF new
    <3> QED BY <3>1, <3>3, <3>4, <2>6 DEF e
  <2> QED BY <2>7, <2>8
<1> QED BY <1>5, <1>7, <1>8

(* The next page of a part is asked for.                                   *)
LEMMA LibraryMoreWell ==
  ASSUME NEW x, NEW c, NEW b, LibraryGood(x, c, b), MailGood(c, b),
         NEW p \in Parts, x.parts[p].phase = "done", ~(x.parts[p].list.loading = TRUE)
  PROVE  LET y == [x EXCEPT !.parts[p].list.loading = TRUE]
             s == <<Request("library_more", x.generation, None, p, Len(x.parts[p].list.rows))>>
         IN  /\ LibraryGood(y, c \o s, b)
             /\ s \in Seq(Requests) /\ \A q \in ToSet(s) : q.tag = "library_more"
<1> DEFINE g == x.generation
           part == x.parts[p]
           list == [part.list EXCEPT !.loading = TRUE]
           new == [phase |-> part.phase, list |-> list]
           y == [x EXCEPT !.parts[p].list.loading = TRUE]
           r == Request("library_more", g, None, p, Len(part.list.rows))
           s == <<r>>
           d == c \o s
<1>1. /\ x \in Libraries /\ g \in Nat
      /\ part \in PartSet /\ part.list \in Lists /\ part.phase \in Phases /\ p \in Names
      /\ PartGood(part, p, g, c, b) /\ Lone(c, b, "library", g, p)
      /\ \A q \in Out(c, b) : q.tag \in {"library", "library_more"} =>
           q.number <= g /\ q.list \in Parts
  BY LibraryFacts
<1>2. list \in Lists
  BY <1>1, FlagBuilt
<1>3. Len(part.list.rows) \in Nat
  <2>1. part.list.rows \in Seq(Rows)
    BY <1>1 DEF Lists
  <2> QED BY <2>1, LenProperties
<1>4. r \in Requests /\ r.tag = "library_more" /\ r.number = g /\ r.list = p
  BY <1>1, <1>3 DEF Request, Requests, Tags, None
<1>5. s \in Seq(Requests) /\ ToSet(s) = {r}
  <2> HIDE DEF r
  <2> QED BY <1>4 DEF ToSet
<1>6. PagedGood(part.list, "library_more", g, p, None, c, b)
  BY <1>1 DEF PartGood
<1>7. PagedGood(list, "library_more", g, p, None, d, b)
  <2>1. OutFor(c, b, "library_more", g, p) = {}
    BY <1>6, NotLoadingIdle
  <2>2. "library_more" \in Tags /\ None \in Nat
    BY DEF Tags, None
  <2> QED BY <2>1, <2>2, <1>1, <1>6, PagedAsked
<1>8. y = [x EXCEPT !.parts[p] = new]
  <2>1. [part EXCEPT !.list = list] = new
    BY <1>1, PartRecord
  <2>2. y = [x EXCEPT !.parts[p] = [part EXCEPT !.list = list]]
    OBVIOUS
  <2> QED BY <2>1, <2>2
<1> HIDE DEF r, s, d, list, y
<1>9. new \in PartSet /\ new.phase = "done" /\ new.list = list
  BY <1>1, <1>2 DEF PartSet
<1> HIDE DEF new
<1>10. Out(d, b) = Out(c, b) \cup {r}
  <2>1. s \in Seq(Requests)
    BY <1>5
  <2>2. Out(d, b) = Out(c, b) \cup ToSet(s)
    BY <2>1, AskedIsOut DEF d
  <2> QED BY <2>2, <1>5
<1>11. \A tag, l : ~(tag = "library_more" /\ l = p) =>
         /\ OutFor(d, b, tag, g, l) = OutFor(c, b, tag, g, l)
         /\ Lone(c, b, tag, g, l) => Lone(d, b, tag, g, l)
  <2>1. \A tag, l : ~(tag = "library_more" /\ l = p) => \A q \in ToSet(s) : ~Is(q, tag, g, l)
    BY <1>4, <1>5 DEF Is
  <2> QED BY <2>1, <1>5, AskedOut DEF d
<1>12. \A q \in Out(d, b) : q.tag \in {"library", "library_more"} => q.number <= g /\ q.list \in Parts
  BY <1>1, <1>4, <1>10
<1>13. OutFor(c, b, "library", g, p) = {}
  <2>1. \A q \in OutFor(c, b, "library", g, p) : part.phase = "loading"
    BY <1>1 DEF PartGood
  <2> QED BY <2>1
<1>14. PartGood(new, p, g, d, b)
  <2>1. OutFor(d, b, "library", g, p) = {} /\ Lone(d, b, "library", g, p)
    BY <1>1, <1>11, <1>13
  <2> QED BY <2>1, <1>7, <1>9 DEF PartGood
<1>15. LibraryGood(y, d, b)
  BY <1>8, <1>9, <1>11, <1>12, <1>14, PartChanged
<1> QED BY <1>4, <1>5, <1>15 DEF d, s, r, y

---------------------------------------------------------------------------
(* The lyrics.                                                             *)

LEMMA LyricsKept ==
  ASSUME NEW x, NEW last, NEW c, NEW b, NEW d, NEW e, LyricsGood(x, last, c, b),
         Leaves("lyrics", c, b, d, e)
  PROVE  LyricsGood(x, last, d, e)
<1>1. \A r \in Out(d, e) : r.tag = "lyrics" => r \in Out(c, b)
  BY LeavesOut
<1>2. OutFor(d, e, "lyrics", last, "all") = OutFor(c, b, "lyrics", last, "all")
  BY DEF Leaves
<1> QED BY <1>1, <1>2 DEF LyricsGood

LEMMA LyricsAnsweredWell ==
  ASSUME NEW x, NEW last \in Nat, NEW c, NEW b, LyricsGood(x, last, c, b), MailGood(c, b),
         NEW r \in BagToSet(b), r.tag = "lyrics", NEW result
  PROVE  LyricsGood(LyricsAnswered(x, r, result), last, c, BagRemove(b, r))
<1> DEFINE e == BagRemove(b, r)
           y == LyricsAnswered(x, r, result)
<1>1. /\ x \in LyricsSet /\ x.generation \in {last, last + 1} /\ x.text \in {None, x.id}
      /\ x.phase = "loading" => x.generation = last /\ OutFor(c, b, "lyrics", last, "all") # {}
      /\ \A q \in Out(c, b) : q.tag = "lyrics" =>
           /\ q.number <= last /\ q.list = "all"
           /\ q.number = x.generation => q.of = x.id
  BY DEF LyricsGood
<1>2. /\ r \in Out(c, b) /\ Out(c, e) \subseteq Out(c, b)
      /\ ~Is(r, "lyrics", last, "all") =>
           OutFor(c, e, "lyrics", last, "all") = OutFor(c, b, "lyrics", last, "all")
  BY AnsweredOut
<1> HIDE DEF e
<1>3. CASE r.number # x.generation
  <2>1. y = x
    BY <1>3 DEF LyricsAnswered
  <2>2. x.phase = "loading" => ~Is(r, "lyrics", last, "all")
    BY <1>1, <1>3 DEF Is
  <2> QED BY <2>1, <2>2, <1>1, <1>2 DEF LyricsGood, e
<1>4. CASE r.number = x.generation
  <2>1. r.of = x.id /\ x.id \in Nat /\ None \in Nat
    BY <1>1, <1>2, <1>4 DEF LyricsSet, None
  <2>2. y \in LyricsSet /\ y.id = x.id /\ y.generation = x.generation /\ y.phase # "loading"
        /\ y.text \in {None, x.id}
    <3>1. CASE result = "error"
      <4>1. y = [x EXCEPT !.phase = "failed"]
        BY <1>4, <3>1 DEF LyricsAnswered
      <4> HIDE DEF y
      <4> QED BY <4>1, <1>1 DEF LyricsSet, Phases
    <3>2. CASE result # "error"
      <4> DEFINE text == IF result = "page" THEN r.of ELSE None
      <4>1. y = [x EXCEPT !.phase = "done", !.text = text]
        BY <1>4, <3>2 DEF LyricsAnswered
      <4>2. text \in Nat /\ text \in {None, x.id}
        BY <2>1
      <4> HIDE DEF y, text
      <4> QED BY <4>1, <4>2, <1>1 DEF LyricsSet, Phases
    <3> QED BY <3>1, <3>2
  <2> HIDE DEF y
  <2> QED BY <2>2, <1>1, <1>2 DEF LyricsGood, y, e
<1> QED BY <1>3, <1>4

LEMMA LyricsLostWell ==
  ASSUME NEW x, NEW last \in Nat, NEW c, NEW b, LyricsGood(x, last, c, b), MailGood(c, b)
  PROVE  LyricsGood(LyricsLost(x), last, c, b)
<1> DEFINE y == LyricsLost(x)
<1>1. CASE x.phase # "loading"
  BY <1>1 DEF LyricsLost
<1>2. CASE x.phase = "loading"
  <2>1. /\ x \in LyricsSet /\ x.generation = last /\ x.text \in {None, x.id}
        /\ \A q \in Out(c, b) : q.tag = "lyrics" => q.number <= last /\ q.list = "all"
    BY <1>2 DEF LyricsGood
  <2>2. y = [x EXCEPT !.generation = last + 1, !.phase = "failed"]
    BY <1>2, <2>1 DEF LyricsLost
  <2>3. last + 1 \in Nat /\ last < last + 1
    OBVIOUS
  <2>4. \A q \in Out(c, b) : q.tag = "lyrics" => q.number # last + 1
    <3>1. Out(c, b) \subseteq Requests
      BY DEF MailGood, Out, ToSet, BagToSet
    <3>2. \A q \in Out(c, b) : q.number \in Nat
      BY <3>1 DEF Requests
    <3> QED BY <3>2, <2>1
  <2> HIDE DEF y
  <2>5. y \in LyricsSet /\ y.id = x.id /\ y.generation = last + 1 /\ y.phase = "failed" /\ y.text = x.text
    BY <2>1, <2>2, <2>3 DEF LyricsSet, Phases
  <2> QED BY <2>1, <2>4, <2>5 DEF LyricsGood, y
<1> QED BY <1>1, <1>2

LEMMA LyricsBegunWell ==
  ASSUME NEW x, NEW last \in Nat, NEW c, NEW b, LyricsGood(x, last, c, b), MailGood(c, b),
         NEW track \in Nat
  PROVE  LET y == Lyrics(track, last + 1, "loading")
             s == <<LyricsRequest(y)>>
         IN  /\ LyricsGood(y, last + 1, c \o s, b)
             /\ s \in Seq(Requests) /\ \A q \in ToSet(s) : q.tag = "lyrics"
<1> DEFINE y == Lyrics(track, last + 1, "loading")
           r == LyricsRequest(y)
           s == <<r>>
           d == c \o s
<1>1. \A q \in Out(c, b) : q.tag = "lyrics" => q.number <= last /\ q.list = "all"
  BY DEF LyricsGood
<1>2. last + 1 \in Nat /\ last < last + 1
  OBVIOUS
<1>3. y \in LyricsSet /\ y.id = track /\ y.generation = last + 1 /\ y.phase = "loading" /\ y.text = None
  BY <1>2 DEF Lyrics, LyricsSet, Phases, None
<1> HIDE DEF y
<1>4. /\ r \in Requests /\ r.tag = "lyrics" /\ r.number = last + 1 /\ r.list = "all" /\ r.of = track
  BY <1>2, <1>3 DEF LyricsRequest, Request, Requests, Names, Tags
<1> HIDE DEF r
<1>5. s \in Seq(Requests) /\ ToSet(s) = {r}
  BY <1>4 DEF ToSet
<1> HIDE DEF s, d
<1>6. Out(d, b) = Out(c, b) \cup {r}
  <2>1. s \in Seq(Requests)
    BY <1>5
  <2>2. Out(d, b) = Out(c, b) \cup ToSet(s)
    BY <2>1, AskedIsOut DEF d
  <2> QED BY <2>2, <1>5
<1>7. r \in OutFor(d, b, "lyrics", last + 1, "all")
  BY <1>4, <1>6 DEF OutFor, Is
<1>8. \A q \in Out(c, b) : q.tag = "lyrics" => q.number # last + 1 /\ q.number <= last + 1
  <2>1. Out(c, b) \subseteq Requests
    BY DEF MailGood, Out, ToSet, BagToSet
  <2>2. \A q \in Out(c, b) : q.number \in Nat
    BY <2>1 DEF Requests
  <2> QED BY <2>2, <1>1
<1>9. \A q \in Out(d, b) : q.tag = "lyrics" =>
        q.number <= last + 1 /\ q.list = "all" /\ (q.number = last + 1 => q.of = track)
  BY <1>1, <1>2, <1>4, <1>6, <1>8
<1>10. LyricsGood(y, last + 1, d, b)
  BY <1>3, <1>7, <1>9 DEF LyricsGood
<1> QED BY <1>4, <1>5, <1>10 DEF d, s, r, y

---------------------------------------------------------------------------
(* What the interface remembers, one part after another.                   *)

(* Only requests with these tags are asked or answered.                    *)
Others(K, c, b, d, e) == \A tag : tag \notin K => Leaves(tag, c, b, d, e)

LEMMA AskedOthers ==
  ASSUME NEW c, NEW b, MailGood(c, b), NEW s \in Seq(Requests), NEW K,
         \A q \in ToSet(s) : q.tag \in K
  PROVE  MailGood(c \o s, b) /\ Others(K, c, b, c \o s, b)
<1>1. MailGood(c \o s, b) /\ \A tag : (\A x \in ToSet(s) : x.tag # tag) => Leaves(tag, c, b, c \o s, b)
  BY AskedOut
<1> QED BY <1>1 DEF Others

LEMMA AnsweredOthers ==
  ASSUME NEW c, NEW b, MailGood(c, b), NEW r \in BagToSet(b), NEW K, r.tag \in K
  PROVE  MailGood(c, BagRemove(b, r)) /\ Others(K, c, b, c, BagRemove(b, r)) /\ r.tag \in Tags
<1>1. MailGood(c, BagRemove(b, r)) /\ r \in Requests
      /\ \A tag : r.tag # tag => Leaves(tag, c, b, c, BagRemove(b, r))
  BY AnsweredOut
<1> QED BY <1>1 DEF Others, Requests

LEMMA NothingAsked ==
  ASSUME NEW c, NEW b, MailGood(c, b)
  PROVE  c \o <<>> = c
<1>1. c \in Seq(Requests)
  BY DEF MailGood
<1> HIDE DEF Requests
<1> QED BY <1>1

LEMMA StateIs ==
  ASSUME NEW st \in States
  PROVE  /\ \A x \in Searches :
              LET new == [st EXCEPT !.search = x]
              IN  /\ new \in States /\ new.search = x
                  /\ new.views = st.views /\ new.nextSerial = st.nextSerial
                  /\ new.library = st.library /\ new.lyrics = st.lyrics
                  /\ new.lyricsGeneration = st.lyricsGeneration
         /\ \A x \in Libraries :
              LET new == [st EXCEPT !.library = x]
              IN  /\ new \in States /\ new.library = x
                  /\ new.views = st.views /\ new.nextSerial = st.nextSerial
                  /\ new.search = st.search /\ new.lyrics = st.lyrics
                  /\ new.lyricsGeneration = st.lyricsGeneration
                  /\ new.section = st.section /\ new.connection = st.connection
                  /\ new.track = st.track
         /\ \A x \in LyricsSet :
              LET new == [st EXCEPT !.lyrics = x]
              IN  /\ new \in States /\ new.lyrics = x
                  /\ new.views = st.views /\ new.nextSerial = st.nextSerial
                  /\ new.search = st.search /\ new.library = st.library
                  /\ new.lyricsGeneration = st.lyricsGeneration
         /\ \A x \in [Stacks -> Seq(ViewSet)] :
              LET new == [st EXCEPT !.views = x]
              IN  /\ new \in States /\ new.views = x
                  /\ new.nextSerial = st.nextSerial
                  /\ new.search = st.search /\ new.library = st.library
                  /\ new.lyrics = st.lyrics
                  /\ new.lyricsGeneration = st.lyricsGeneration
<1> DEFINE VS == Seq(ViewSet)
<1>1. \A x \in Searches :
        LET new == [st EXCEPT !.search = x]
        IN  /\ new \in States /\ new.search = x
            /\ new.views = st.views /\ new.nextSerial = st.nextSerial
            /\ new.library = st.library /\ new.lyrics = st.lyrics
            /\ new.lyricsGeneration = st.lyricsGeneration
  BY DEF States
<1>2. \A x \in Libraries :
        LET new == [st EXCEPT !.library = x]
        IN  /\ new \in States /\ new.library = x
            /\ new.views = st.views /\ new.nextSerial = st.nextSerial
            /\ new.search = st.search /\ new.lyrics = st.lyrics
            /\ new.lyricsGeneration = st.lyricsGeneration
            /\ new.section = st.section /\ new.connection = st.connection
            /\ new.track = st.track
  BY DEF States
<1>3. \A x \in LyricsSet :
        LET new == [st EXCEPT !.lyrics = x]
        IN  /\ new \in States /\ new.lyrics = x
            /\ new.views = st.views /\ new.nextSerial = st.nextSerial
            /\ new.search = st.search /\ new.library = st.library
            /\ new.lyricsGeneration = st.lyricsGeneration
  BY DEF States
<1>4. \A x \in [Stacks -> Seq(ViewSet)] :
        LET new == [st EXCEPT !.views = x]
        IN  /\ new \in States /\ new.views = x
            /\ new.nextSerial = st.nextSerial
            /\ new.search = st.search /\ new.library = st.library
            /\ new.lyrics = st.lyrics
            /\ new.lyricsGeneration = st.lyricsGeneration
  BY DEF States
<1> QED BY <1>1, <1>2, <1>3, <1>4

LEMMA GoodSearch ==
  ASSUME NEW st, NEW x, NEW c, NEW b, NEW d, NEW e, Good(st, c, b), MailGood(d, e),
         Others({"search"}, c, b, d, e), SearchGood(x, d, e)
  PROVE  Good([st EXCEPT !.search = x], d, e)
<1> DEFINE new == [st EXCEPT !.search = x]
<1>1. st \in States /\ x \in Searches
  BY DEF Good, SearchGood
<1>2. /\ new \in States /\ new.search = x
      /\ new.views = st.views /\ new.nextSerial = st.nextSerial
      /\ new.library = st.library /\ new.lyrics = st.lyrics
      /\ new.lyricsGeneration = st.lyricsGeneration
  BY <1>1, StateIs
<1>3. Leaves("view", c, b, d, e) /\ Leaves("library", c, b, d, e)
      /\ Leaves("library_more", c, b, d, e) /\ Leaves("lyrics", c, b, d, e)
  BY DEF Others
<1>4. /\ ViewsGood(st.views, st.nextSerial, c, b) /\ LibraryGood(st.library, c, b)
      /\ LyricsGood(st.lyrics, st.lyricsGeneration, c, b)
  BY DEF Good
<1>5. ViewsGood(st.views, st.nextSerial, d, e)
  BY <1>3, <1>4, ViewsKept
<1>6. LibraryGood(st.library, d, e)
  BY <1>3, <1>4, LibraryKept
<1>7. LyricsGood(st.lyrics, st.lyricsGeneration, d, e)
  BY <1>3, <1>4, LyricsKept
<1> HIDE DEF new
<1> QED BY <1>2, <1>5, <1>6, <1>7 DEF Good, new

LEMMA GoodViews ==
  ASSUME NEW st, NEW new, NEW c, NEW b, NEW d, NEW e, Good(st, c, b), MailGood(d, e),
         Others({"view"}, c, b, d, e), new \in States,
         new.search = st.search, new.library = st.library, new.lyrics = st.lyrics,
         new.lyricsGeneration = st.lyricsGeneration,
         ViewsGood(new.views, new.nextSerial, d, e)
  PROVE  Good(new, d, e)
<1>3. Leaves("search", c, b, d, e) /\ Leaves("library", c, b, d, e)
      /\ Leaves("library_more", c, b, d, e) /\ Leaves("lyrics", c, b, d, e)
  BY DEF Others
<1>4. /\ SearchGood(st.search, c, b) /\ LibraryGood(st.library, c, b)
      /\ LyricsGood(st.lyrics, st.lyricsGeneration, c, b)
  BY DEF Good
<1>5. SearchGood(st.search, d, e)
  BY <1>3, <1>4, SearchKept
<1>6. LibraryGood(st.library, d, e)
  BY <1>3, <1>4, LibraryKept
<1>7. LyricsGood(st.lyrics, st.lyricsGeneration, d, e)
  BY <1>3, <1>4, LyricsKept
<1> QED BY <1>5, <1>6, <1>7 DEF Good

LEMMA GoodLibrary ==
  ASSUME NEW st, NEW x, NEW c, NEW b, NEW d, NEW e, Good(st, c, b), MailGood(d, e),
         Others({"library", "library_more"}, c, b, d, e), LibraryGood(x, d, e)
  PROVE  LET new == [st EXCEPT !.library = x]
         IN  /\ Good(new, d, e)
             /\ new.section = st.section /\ new.connection = st.connection
             /\ new.track = st.track /\ new.lyrics = st.lyrics
             /\ new.lyricsGeneration = st.lyricsGeneration
<1> DEFINE new == [st EXCEPT !.library = x]
<1>1. st \in States /\ x \in Libraries
  BY DEF Good, LibraryGood
<1>2. /\ new \in States /\ new.library = x
      /\ new.views = st.views /\ new.nextSerial = st.nextSerial
      /\ new.search = st.search /\ new.lyrics = st.lyrics
      /\ new.lyricsGeneration = st.lyricsGeneration
      /\ new.section = st.section /\ new.connection = st.connection
      /\ new.track = st.track
  BY <1>1, StateIs
<1>3. Leaves("search", c, b, d, e) /\ Leaves("view", c, b, d, e) /\ Leaves("lyrics", c, b, d, e)
  BY DEF Others
<1>4. /\ SearchGood(st.search, c, b) /\ ViewsGood(st.views, st.nextSerial, c, b)
      /\ LyricsGood(st.lyrics, st.lyricsGeneration, c, b)
  BY DEF Good
<1>5. SearchGood(st.search, d, e)
  BY <1>3, <1>4, SearchKept
<1>6. ViewsGood(st.views, st.nextSerial, d, e)
  BY <1>3, <1>4, ViewsKept
<1>7. LyricsGood(st.lyrics, st.lyricsGeneration, d, e)
  BY <1>3, <1>4, LyricsKept
<1> HIDE DEF new
<1>8. Good(new, d, e)
  BY <1>2, <1>5, <1>6, <1>7 DEF Good
<1> QED BY <1>2, <1>8 DEF new

LEMMA GoodLyrics ==
  ASSUME NEW st, NEW new, NEW c, NEW b, NEW d, NEW e, Good(st, c, b), MailGood(d, e),
         Others({"lyrics"}, c, b, d, e), new \in States,
         new.search = st.search, new.library = st.library, new.views = st.views,
         new.nextSerial = st.nextSerial,
         LyricsGood(new.lyrics, new.lyricsGeneration, d, e)
  PROVE  Good(new, d, e)
<1>3. Leaves("search", c, b, d, e) /\ Leaves("library", c, b, d, e)
      /\ Leaves("library_more", c, b, d, e) /\ Leaves("view", c, b, d, e)
  BY DEF Others
<1>4. /\ SearchGood(st.search, c, b) /\ LibraryGood(st.library, c, b)
      /\ ViewsGood(st.views, st.nextSerial, c, b)
  BY DEF Good
<1>5. SearchGood(st.search, d, e)
  BY <1>3, <1>4, SearchKept
<1>6. LibraryGood(st.library, d, e)
  BY <1>3, <1>4, LibraryKept
<1>7. ViewsGood(st.views, st.nextSerial, d, e)
  BY <1>3, <1>4, ViewsKept
<1> QED BY <1>5, <1>6, <1>7 DEF Good

---------------------------------------------------------------------------
(* What follows every message.                                             *)

LEMMA LibraryFollows ==
  ASSUME NEW st, NEW c, NEW b, Good(st, c, b)
  PROVE  LET new == [st EXCEPT !.library = IF LibraryDue(st) THEN Library(0, "loading") ELSE @]
             d   == c \o (IF LibraryDue(st) THEN LibraryRequests(0) ELSE <<>>)
         IN  /\ Good(new, d, b)
             /\ new.section = st.section /\ new.connection = st.connection
             /\ new.track = st.track /\ new.lyrics = st.lyrics
             /\ new.lyricsGeneration = st.lyricsGeneration
<1>1. st \in States /\ MailGood(c, b) /\ LibraryGood(st.library, c, b)
  BY DEF Good
<1>2. CASE ~LibraryDue(st)
  <2>1. [st EXCEPT !.library = st.library] = st
    BY <1>1 DEF States
  <2> QED BY <1>1, <1>2, <2>1, NothingAsked
<1>3. CASE LibraryDue(st)
  <2> DEFINE d == c \o LibraryRequests(0)
             new == [st EXCEPT !.library = Library(0, "loading")]
  <2>1. LibraryGood(Library(0, "loading"), d, b)
    BY <1>1, <1>3, LibraryFirstWell DEF LibraryDue
  <2>2. LibraryRequests(0) \in Seq(Requests) /\ \A q \in ToSet(LibraryRequests(0)) : q.tag = "library"
    BY LibraryIsAsked
  <2>3. MailGood(d, b) /\ Others({"library", "library_more"}, c, b, d, b)
    BY <1>1, <2>2, AskedOthers
  <2> HIDE DEF d
  <2>4. /\ Good(new, d, b)
        /\ new.section = st.section /\ new.connection = st.connection
        /\ new.track = st.track /\ new.lyrics = st.lyrics
        /\ new.lyricsGeneration = st.lyricsGeneration
    BY <2>1, <2>3, GoodLibrary
  <2> QED BY <1>3, <2>4 DEF d
<1> QED BY <1>2, <1>3

LEMMA LyricsFollowOn ==
  ASSUME NEW st, NEW c, NEW b, Good(st, c, b), NEW due \in BOOLEAN,
         st.section = "lyrics" /\ st.connection = "connected" /\ st.track # None
           /\ st.lyrics.id # st.track => due
  PROVE  LET begun == Lyrics(st.track, st.lyricsGeneration + 1, "loading")
             new   == [st EXCEPT !.lyricsGeneration = IF due THEN @ + 1 ELSE @,
                                 !.lyrics = IF due THEN begun ELSE @]
             d     == c \o (IF due THEN <<LyricsRequest(begun)>> ELSE <<>>)
         IN  Good(new, d, b) /\ LyricsFollow(new)
<1> DEFINE begun == Lyrics(st.track, st.lyricsGeneration + 1, "loading")
<1>1. /\ st \in States /\ MailGood(c, b) /\ LyricsGood(st.lyrics, st.lyricsGeneration, c, b)
      /\ st.track \in Nat /\ st.lyricsGeneration \in Nat
  BY DEF Good, States
<1>2. CASE due = FALSE
  <2>1. [st EXCEPT !.lyricsGeneration = st.lyricsGeneration, !.lyrics = st.lyrics] = st
    BY <1>1 DEF States
  <2>2. LyricsFollow(st)
    BY <1>2 DEF LyricsFollow
  <2> QED BY <1>1, <1>2, <2>1, <2>2, NothingAsked
<1>3. CASE due = TRUE
  <2> DEFINE s == <<LyricsRequest(begun)>>
             d == c \o s
             new == [st EXCEPT !.lyricsGeneration = st.lyricsGeneration + 1, !.lyrics = begun]
  <2>1. /\ LyricsGood(begun, st.lyricsGeneration + 1, d, b)
        /\ s \in Seq(Requests) /\ \A q \in ToSet(s) : q.tag = "lyrics"
    BY <1>1, LyricsBegunWell
  <2>2. begun \in LyricsSet /\ st.lyricsGeneration + 1 \in Nat
    BY <1>1, <2>1 DEF LyricsGood
  <2>3. begun.id = st.track
    BY DEF Lyrics
  <2> HIDE DEF begun, s
  <2>4. MailGood(d, b) /\ Others({"lyrics"}, c, b, d, b)
    BY <1>1, <2>1, AskedOthers
  <2> HIDE DEF d
  <2>5. /\ new \in States /\ new.lyrics = begun /\ new.lyricsGeneration = st.lyricsGeneration + 1
        /\ new.views = st.views /\ new.nextSerial = st.nextSerial
        /\ new.search = st.search /\ new.library = st.library /\ new.track = st.track
    BY <1>1, <2>2 DEF States
  <2> HIDE DEF new
  <2>6. Good(new, d, b)
    BY <2>1, <2>4, <2>5, GoodLyrics
  <2>7. LyricsFollow(new)
    BY <2>3, <2>5 DEF LyricsFollow
  <2> QED BY <1>3, <2>6, <2>7 DEF new, d, s, begun
<1> QED BY <1>2, <1>3

LEMMA UpdateKeeps ==
  ASSUME NEW new, NEW sent, Good(new, channel \o sent, underway'), Update(new, sent)
  PROVE  Good(state', channel', underway') /\ LyricsFollow(state')
<1> DEFINE c == channel \o sent
           b == underway'
           due == LyricsDue(new)
           one == [new EXCEPT !.library = IF LibraryDue(new) THEN Library(0, "loading") ELSE @]
           d == c \o (IF LibraryDue(new) THEN LibraryRequests(0) ELSE <<>>)
           begun == Lyrics(new.track, new.lyricsGeneration + 1, "loading")
           two == [one EXCEPT !.lyricsGeneration = IF due THEN new.lyricsGeneration + 1
                                                          ELSE new.lyricsGeneration,
                              !.lyrics = IF due THEN begun ELSE new.lyrics]
           e == d \o (IF due THEN <<LyricsRequest(begun)>> ELSE <<>>)
<1>1. /\ Good(one, d, b)
      /\ one.section = new.section /\ one.connection = new.connection
      /\ one.track = new.track /\ one.lyrics = new.lyrics
      /\ one.lyricsGeneration = new.lyricsGeneration
  BY LibraryFollows
<1>2. due \in BOOLEAN
  BY DEF LyricsDue
<1>3. new.section = "lyrics" /\ new.connection = "connected" /\ new.track # None
        /\ new.lyrics.id # new.track => due
  BY DEF LyricsDue
<1>4. state' = two /\ channel' = e
  <2>1. state' = [new EXCEPT
          !.library = IF LibraryDue(new) THEN Library(0, "loading") ELSE @,
          !.lyricsGeneration = IF due THEN @ + 1 ELSE @,
          !.lyrics = IF due THEN begun ELSE @] /\ channel' = e
    BY DEF Update
  <2> DEFINE lib == IF LibraryDue(new) THEN Library(0, "loading") ELSE new.library
             gen == IF due THEN new.lyricsGeneration + 1 ELSE new.lyricsGeneration
             lyr == IF due THEN begun ELSE new.lyrics
  <2>2. state' = [new EXCEPT !.library = lib, !.lyricsGeneration = gen, !.lyrics = lyr]
    BY <2>1
  <2>3. two = [[new EXCEPT !.library = lib] EXCEPT !.lyricsGeneration = gen, !.lyrics = lyr]
    OBVIOUS
  <2> HIDE DEF lib, gen, lyr, two
  <2>4. [new EXCEPT !.library = lib, !.lyricsGeneration = gen, !.lyrics = lyr]
          = [[new EXCEPT !.library = lib] EXCEPT !.lyricsGeneration = gen, !.lyrics = lyr]
    OBVIOUS
  <2> QED BY <2>1, <2>2, <2>3, <2>4
<1> HIDE DEF one, d, due, c, b
<1>5. Good(two, e, b) /\ LyricsFollow(two)
  BY <1>1, <1>2, <1>3, LyricsFollowOn
<1> QED BY <1>4, <1>5 DEF b

---------------------------------------------------------------------------
(* Every action keeps it.                                                  *)

LEMMA InitKeeps == Init => Inv
<1> SUFFICES ASSUME Init PROVE Inv
  OBVIOUS
<1> DEFINE b == underway
<1>1. link = "trying" /\ retry = FALSE /\ news = <<>> /\ keys = 0 /\ drops = 0
      /\ channel = <<>> /\ underway = EmptyBag
  BY DEF Init
<1>2. LinkGood
  <2>1. news \in Seq({"connected", "disconnected", "refused"}) /\ Len(news) = 0
    BY <1>1
  <2>2. MaxNews \in Nat /\ Len(news) <= MaxNews
    BY <2>1, TuiAssumption
  <2> QED BY <1>1, <2>1, <2>2 DEF LinkGood
<1>3. DOMAIN channel = {} /\ BagToSet(b) = {} /\ MailGood(channel, b)
  <2>1. BagToSet(b) = {}
    BY <1>1 DEF BagToSet, EmptyBag, SetToBag
  <2>2. b \in [BagToSet(b) -> Nat \ {0}]
    BY <1>1 DEF BagToSet, EmptyBag, SetToBag
  <2> QED BY <1>1, <2>1, <2>2 DEF MailGood
<1>4. Out(channel, b) = {} /\ \A tag, n, l : OutFor(channel, b, tag, n, l) = {}
  BY <1>3 DEF Out, OutFor, ToSet
<1>5. \A tag, n, l : Lone(channel, b, tag, n, l)
  BY <1>4, NoneIsLone
<1>6. \A tag, n, l, of : PagedGood(NoList, tag, n, l, of, channel, b)
  <2>1. \A of, l : ShowsInOrder(NoList, of, l)
    BY NoListBuilt DEF ShowsInOrder
  <2> QED BY <2>1, <1>4, PagedIdle
<1> DEFINE lists == [t \in Tabs |-> NoList]
           search == [query |-> None, generation |-> 0, phase |-> "none", lists |-> lists]
           views == [s \in Stacks |-> <<>>]
           lyrics == Lyrics(None, 0, "none")
<1>7. state = [connection |-> "connecting", section |-> "home", track |-> None,
               search |-> search, views |-> views, nextSerial |-> 0,
               library |-> NoLibrary, lyrics |-> lyrics, lyricsGeneration |-> 0]
  BY DEF Init
<1>8. search \in Searches /\ search.generation = 0 /\ search.phase = "none" /\ search.lists = lists
  <2>1. lists \in [Tabs -> Lists]
    BY NoListBuilt
  <2> HIDE DEF lists
  <2> QED BY <2>1 DEF Searches, Phases, None
<1>9. \A t \in Tabs : search.lists[t] = NoList
  OBVIOUS
<1> HIDE DEF search, b
<1>10. SearchGood(search, channel, b)
  BY <1>4, <1>5, <1>6, <1>8, <1>9, NoListBuilt DEF SearchGood
<1>11. views \in [Stacks -> Seq(ViewSet)] /\ \A s \in Stacks : DOMAIN views[s] = {}
  <2>1. <<>> \in Seq(ViewSet)
    OBVIOUS
  <2> QED BY <2>1
<1> HIDE DEF views
<1>12. ViewsGood(views, 0, channel, b)
  BY <1>4, <1>11 DEF ViewsGood
<1> DEFINE parts == [p \in Parts |-> [phase |-> "none", list |-> NoList]]
<1>13. parts \in [Parts -> PartSet] /\ \A p \in Parts : parts[p].phase = "none" /\ parts[p].list = NoList
  <2>1. "none" \in Phases
    BY DEF Phases
  <2> QED BY <2>1, NoListBuilt DEF PartSet
<1>14. NoLibrary = [generation |-> 0, parts |-> parts]
  BY DEF NoLibrary, Library
<1> HIDE DEF parts
<1>15. LibraryGood(NoLibrary, channel, b)
  <2>1. \A p \in Parts : PartGood(parts[p], p, 0, channel, b)
    BY <1>4, <1>5, <1>6, <1>13 DEF PartGood
  <2> QED BY <2>1, <1>4, <1>13, <1>14, LibraryMade
<1>16. lyrics \in LyricsSet /\ lyrics.generation = 0 /\ lyrics.phase = "none" /\ lyrics.text = None
  BY DEF Lyrics, LyricsSet, Phases, None
<1> HIDE DEF lyrics
<1>17. LyricsGood(lyrics, 0, channel, b)
  BY <1>4, <1>16 DEF LyricsGood
<1>18. NoLibrary \in Libraries
  BY <1>15 DEF LibraryGood
<1>19. state \in States
  BY <1>7, <1>8, <1>11, <1>16, <1>18 DEF States, Sections, None
<1>20. Good(state, channel, b)
  BY <1>3, <1>7, <1>10, <1>12, <1>15, <1>17, <1>19 DEF Good
<1>21. LyricsFollow(state)
  BY <1>7 DEF LyricsFollow
<1> QED BY <1>2, <1>20, <1>21 DEF Inv, b

LEMMA UpdateOnly ==
  ASSUME Inv, NEW new, Update(new, <<>>), UNCHANGED underway, Good(new, channel, underway)
  PROVE  Good(state', channel', underway') /\ LyricsFollow(state')
<1>1. MailGood(channel, underway)
  BY DEF Inv, Good
<1>2. channel \o <<>> = channel
  BY <1>1, NothingAsked
<1> QED BY <1>2, UpdateKeeps

(* What is neither loaded nor answered.                                    *)
LEMMA GoodOtherwise ==
  ASSUME NEW st, NEW new, NEW c, NEW b, Good(st, c, b), new \in States,
         new.search = st.search, new.views = st.views, new.nextSerial = st.nextSerial,
         new.library = st.library, new.lyrics = st.lyrics,
         new.lyricsGeneration = st.lyricsGeneration
  PROVE  Good(new, c, b)
BY DEF Good

LEMMA StateOtherwise ==
  ASSUME NEW st \in States
  PROVE  /\ \A k \in {"connecting", "connected", "disconnected", "refused"}, t \in Nat, s \in Sections :
              \A new \in {[st EXCEPT !.connection = k, !.track = t], [st EXCEPT !.connection = k],
                          [st EXCEPT !.track = t], [st EXCEPT !.section = s]} :
                /\ new \in States
                /\ new.search = st.search /\ new.views = st.views
                /\ new.nextSerial = st.nextSerial /\ new.library = st.library
                /\ new.lyrics = st.lyrics /\ new.lyricsGeneration = st.lyricsGeneration
BY ZenonT(60) DEF States

LEMMA NewsKeeps ==
  ASSUME Inv, NEW what, HearNews(what)
  PROVE  LinkGood' /\ UNCHANGED underway
<1> DEFINE S == {"connected", "disconnected", "refused"}
<1>1. /\ link \in {"trying", "up", "waiting", "refused"} /\ retry \in BOOLEAN
      /\ news \in Seq(S) /\ Len(news) <= MaxNews /\ keys \in Nat /\ drops \in Nat
  BY DEF Inv, LinkGood
<1>2. news # <<>> /\ news' = Tail(news) /\ UNCHANGED <<link, retry, underway, keys, drops>>
  BY DEF HearNews
<1> HIDE DEF S
<1>3. news' \in Seq(S) /\ Len(news') = Len(news) - 1 /\ Len(news) \in Nat
  BY <1>1, <1>2, HeadTailProperties, LenProperties
<1>4. Len(news') <= MaxNews
  <2>1. MaxNews \in Nat
    BY TuiAssumption
  <2> QED BY <2>1, <1>1, <1>3
<1> QED BY <1>1, <1>2, <1>3, <1>4 DEF LinkGood, S

LEMMA ConnectedKeeps == ASSUME Inv, HearConnected PROVE Inv'
<1>1. Good(state, channel, underway) /\ state \in States
  BY DEF Inv, Good
<1>2. LinkGood' /\ UNCHANGED underway
  BY NewsKeeps DEF HearConnected
<1>3. PICK t \in {state.track, state.track + 1} :
        Update([state EXCEPT !.connection = "connected", !.track = t], <<>>)
  BY DEF HearConnected
<1>4. t \in Nat
  BY <1>1, <1>3 DEF States
<1> DEFINE new == [state EXCEPT !.connection = "connected", !.track = t]
<1>5. /\ new \in States
      /\ new.search = state.search /\ new.views = state.views
      /\ new.nextSerial = state.nextSerial /\ new.library = state.library
      /\ new.lyrics = state.lyrics /\ new.lyricsGeneration = state.lyricsGeneration
  BY <1>1, <1>4 DEF States
<1> HIDE DEF new
<1>6. Good(new, channel, underway)
  BY <1>1, <1>5, GoodOtherwise
<1>7. Good(state', channel', underway') /\ LyricsFollow(state')
  BY <1>2, <1>3, <1>6, UpdateOnly DEF new
<1> QED BY <1>2, <1>7 DEF Inv

LEMMA RefusedKeeps == ASSUME Inv, HearRefused PROVE Inv'
<1>1. Good(state, channel, underway) /\ state \in States
  BY DEF Inv, Good
<1>2. LinkGood' /\ UNCHANGED underway
  BY NewsKeeps DEF HearRefused
<1> DEFINE new == [state EXCEPT !.connection = "refused"]
<1>3. Update(new, <<>>)
  BY DEF HearRefused
<1>5. /\ new \in States
      /\ new.search = state.search /\ new.views = state.views
      /\ new.nextSerial = state.nextSerial /\ new.library = state.library
      /\ new.lyrics = state.lyrics /\ new.lyricsGeneration = state.lyricsGeneration
  BY <1>1 DEF States
<1> HIDE DEF new
<1>6. Good(new, channel, underway)
  BY <1>1, <1>5, GoodOtherwise
<1>7. Good(state', channel', underway') /\ LyricsFollow(state')
  BY <1>2, <1>3, <1>6, UpdateOnly
<1> QED BY <1>2, <1>7 DEF Inv

LEMMA DisconnectedKeeps == ASSUME Inv, HearDisconnected PROVE Inv'
<1>1. /\ Good(state, channel, underway) /\ state \in States /\ MailGood(channel, underway)
      /\ SearchGood(state.search, channel, underway)
      /\ ViewsGood(state.views, state.nextSerial, channel, underway)
      /\ LibraryGood(state.library, channel, underway)
      /\ LyricsGood(state.lyrics, state.lyricsGeneration, channel, underway)
      /\ state.lyricsGeneration \in Nat
  BY DEF Inv, Good, States
<1>2. LinkGood' /\ UNCHANGED underway
  BY NewsKeeps DEF HearDisconnected
<1> DEFINE search == SearchLost(state.search)
           views == ViewsLost(state.views)
           library == LibraryLost(state.library)
           lyrics == LyricsLost(state.lyrics)
           new == [state EXCEPT !.connection = "disconnected", !.search = search,
                                !.views = views, !.library = library, !.lyrics = lyrics]
<1>3. Update(new, <<>>)
  BY DEF HearDisconnected
<1>4. /\ SearchGood(search, channel, underway)
      /\ ViewsGood(views, state.nextSerial, channel, underway)
      /\ LibraryGood(library, channel, underway)
      /\ LyricsGood(lyrics, state.lyricsGeneration, channel, underway)
  BY <1>1, SearchLostWell, ViewsLostWell, LibraryLostWell, LyricsLostWell
<1> HIDE DEF search, views, library, lyrics
<1>5. search \in Searches /\ views \in [Stacks -> Seq(ViewSet)] /\ library \in Libraries
      /\ lyrics \in LyricsSet
  BY <1>4 DEF SearchGood, ViewsGood, LibraryGood, LyricsGood
<1>6. /\ new \in States
      /\ new.search = search /\ new.views = views
      /\ new.nextSerial = state.nextSerial /\ new.library = library
      /\ new.lyrics = lyrics /\ new.lyricsGeneration = state.lyricsGeneration
  BY <1>1, <1>5 DEF States
<1> HIDE DEF new
<1>7. Good(new, channel, underway)
  BY <1>1, <1>4, <1>6 DEF Good
<1>8. Good(state', channel', underway') /\ LyricsFollow(state')
  BY <1>2, <1>3, <1>7, UpdateOnly
<1> QED BY <1>2, <1>8 DEF Inv

(* An answer: where it is put, and what it sends.                          *)
LEMMA AnswerKeeps ==
  ASSUME Inv, NEW r \in BagToSet(underway), NEW result, HearAnswer(r, result)
  PROVE  Inv'
<1> DEFINE c == channel
           b == underway
           e == BagRemove(underway, r)
           new == Placed(r, result)
           sent == IF r.tag = "favorite" /\ new # state
                     THEN LibraryRequests(new.library.generation) ELSE <<>>
<1>1. /\ Good(state, c, b) /\ state \in States /\ MailGood(c, b)
      /\ SearchGood(state.search, c, b)
      /\ ViewsGood(state.views, state.nextSerial, c, b)
      /\ LibraryGood(state.library, c, b)
      /\ LyricsGood(state.lyrics, state.lyricsGeneration, c, b)
      /\ state.lyricsGeneration \in Nat
  BY DEF Inv, Good, States
<1>2. underway' = e /\ UNCHANGED <<link, retry, news, keys, drops>> /\ Update(new, sent)
  BY DEF HearAnswer
<1>3. MailGood(c, e) /\ r.tag \in Tags /\ \A K : r.tag \in K => Others(K, c, b, c, e)
  <2>1. \A K : r.tag \in K => MailGood(c, e) /\ Others(K, c, b, c, e) /\ r.tag \in Tags
    BY <1>1, AnsweredOthers
  <2>2. r.tag \in {r.tag}
    OBVIOUS
  <2> QED BY <2>1, <2>2
<1>4. c \o <<>> = c
  BY <1>1, NothingAsked
<1> HIDE DEF new, sent
<1>5. ASSUME r.tag = "search" PROVE Good(new, c \o sent, e)
  <2>1. new = [state EXCEPT !.search = SearchAnswered(state.search, r, result)] /\ sent = <<>>
    BY <1>5 DEF Placed, new, sent
  <2>2. SearchGood(SearchAnswered(state.search, r, result), c, e)
    BY <1>1, <1>5, SearchAnsweredWell
  <2>3. Others({"search"}, c, b, c, e)
    BY <1>3, <1>5
  <2> HIDE DEF e
  <2>4. Good([state EXCEPT !.search = SearchAnswered(state.search, r, result)], c, e)
    BY <1>1, <1>3, <2>2, <2>3, GoodSearch
  <2> QED BY <2>1, <2>4, <1>4
<1>6. ASSUME r.tag = "view" PROVE Good(new, c \o sent, e)
  <2> DEFINE views == ViewsAnswered(state.views, r, result)
  <2>1. new = [state EXCEPT !.views = views] /\ sent = <<>>
    BY <1>6 DEF Placed, new, sent
  <2>2. ViewsGood(views, state.nextSerial, c, e)
    BY <1>1, <1>6, ViewsAnsweredWell
  <2>3. Others({"view"}, c, b, c, e)
    BY <1>3, <1>6
  <2>4. views \in [Stacks -> Seq(ViewSet)]
    BY <2>2 DEF ViewsGood
  <2> HIDE DEF e, views
  <2> DEFINE z == [state EXCEPT !.views = views]
  <2>5. /\ z \in States /\ z.views = views
        /\ z.nextSerial = state.nextSerial
        /\ z.search = state.search /\ z.library = state.library
        /\ z.lyrics = state.lyrics
        /\ z.lyricsGeneration = state.lyricsGeneration
    BY <1>1, <2>4, StateIs
  <2> HIDE DEF z
  <2>6. Good(z, c, e)
    BY <1>1, <1>3, <2>2, <2>3, <2>5, GoodViews
  <2> QED BY <2>1, <2>6, <1>4 DEF z
<1>7. ASSUME r.tag \in {"library", "library_more"} PROVE Good(new, c \o sent, e)
  <2>1. new = [state EXCEPT !.library = LibraryAnswered(state.library, r, result)] /\ sent = <<>>
    BY <1>7 DEF Placed, new, sent
  <2>2. LibraryGood(LibraryAnswered(state.library, r, result), c, e)
    BY <1>1, <1>7, LibraryAnsweredWell
  <2>3. Others({"library", "library_more"}, c, b, c, e)
    BY <1>3, <1>7
  <2> HIDE DEF e
  <2>4. Good([state EXCEPT !.library = LibraryAnswered(state.library, r, result)], c, e)
    BY <1>1, <1>3, <2>2, <2>3, GoodLibrary
  <2> QED BY <2>1, <2>4, <1>4
<1>8. ASSUME r.tag = "lyrics" PROVE Good(new, c \o sent, e)
  <2> DEFINE lyrics == LyricsAnswered(state.lyrics, r, result)
  <2>1. new = [state EXCEPT !.lyrics = lyrics] /\ sent = <<>>
    BY <1>8 DEF Placed, new, sent
  <2>2. LyricsGood(lyrics, state.lyricsGeneration, c, e)
    BY <1>1, <1>8, LyricsAnsweredWell
  <2>3. Others({"lyrics"}, c, b, c, e)
    BY <1>3, <1>8
  <2>4. lyrics \in LyricsSet
    BY <2>2 DEF LyricsGood
  <2> HIDE DEF e, lyrics
  <2> DEFINE z == [state EXCEPT !.lyrics = lyrics]
  <2>5. /\ z \in States /\ z.lyrics = lyrics
        /\ z.views = state.views /\ z.nextSerial = state.nextSerial
        /\ z.search = state.search /\ z.library = state.library
        /\ z.lyricsGeneration = state.lyricsGeneration
    BY <1>1, <2>4, StateIs
  <2> HIDE DEF z
  <2>6. Good(z, c, e)
    BY <1>1, <1>3, <2>2, <2>3, <2>5, GoodLyrics
  <2> QED BY <2>1, <2>6, <1>4 DEF z
<1>9. ASSUME r.tag = "favorite" PROVE Good(new, c \o sent, e)
  <2>1. \A tag \in {"search", "view", "library", "library_more", "lyrics"} : Leaves(tag, c, b, c, e)
    <3>1. Others({"favorite"}, c, b, c, e)
      BY <1>3, <1>9
    <3> QED BY <3>1 DEF Others
  <2>2. Good(state, c, e)
    <3>1. SearchGood(state.search, c, e)
      BY <1>1, <2>1, SearchKept
    <3>2. ViewsGood(state.views, state.nextSerial, c, e)
      BY <1>1, <2>1, ViewsKept
    <3>3. LibraryGood(state.library, c, e)
      BY <1>1, <2>1, LibraryKept
    <3>4. LyricsGood(state.lyrics, state.lyricsGeneration, c, e)
      BY <1>1, <2>1, LyricsKept
    <3> QED BY <3>1, <3>2, <3>3, <3>4, <1>1, <1>3 DEF Good
  <2>3. CASE result = "error" \/ state.library = NoLibrary
    <3>1. new = state /\ sent = <<>>
      BY <1>9, <2>3 DEF Placed, new, sent
    <3> QED BY <3>1, <2>2, <1>4
  <2>4. CASE ~(result = "error" \/ state.library = NoLibrary)
    <3> DEFINE again == Reloading(state.library)
               asked == LibraryRequests(again.generation)
               d == c \o asked
    <3>1. new = [state EXCEPT !.library = again]
      BY <1>9, <2>4 DEF Placed, new
    <3>2. LibraryGood(state.library, c, e)
      BY <2>2 DEF Good
    <3> HIDE DEF e
    <3>3. LibraryGood(again, d, e) /\ again.generation = state.library.generation + 1
      BY <3>2, <1>3, ReloadingWell
    <3>4. state.library.generation \in Nat /\ again.generation \in Nat /\ again \in Libraries
      BY <3>2, <3>3 DEF LibraryGood, Libraries
    <3>5. new.library = again
      BY <3>1, <3>4, <1>1, StateIs
    <3>6. new # state
      BY <3>3, <3>4, <3>5
    <3>7. sent = asked
      BY <1>9, <3>5, <3>6 DEF sent
    <3>8. asked \in Seq(Requests) /\ \A q \in ToSet(asked) : q.tag \in {"library", "library_more"}
      BY SMTT(30), <3>4, LibraryIsAsked
    <3>9. MailGood(d, e) /\ Others({"library", "library_more"}, c, e, d, e)
      BY <3>8, <1>3, AskedOthers
    <3> HIDE DEF d, again
    <3>10. Good([state EXCEPT !.library = again], d, e)
      BY <2>2, <3>3, <3>9, GoodLibrary
    <3> QED BY <3>1, <3>7, <3>10 DEF d
  <2> QED BY <2>3, <2>4
<1>10. Good(new, c \o sent, e)
  BY <1>3, <1>5, <1>6, <1>7, <1>8, <1>9 DEF Tags
<1> HIDE DEF e
<1>11. Good(state', channel', underway') /\ LyricsFollow(state')
  BY <1>2, <1>10, UpdateKeeps
<1>12. LinkGood'
  BY <1>2 DEF Inv, LinkGood
<1> QED BY <1>11, <1>12 DEF Inv

LEMMA KeyKeeps ==
  ASSUME Inv, NEW new, NEW sent, Key(new, sent), retry' \in BOOLEAN,
         Good(new, channel \o sent, underway)
  PROVE  Inv'
<1>1. /\ keys < MaxKeys /\ keys' = keys + 1 /\ Update(new, sent)
      /\ UNCHANGED <<link, news, underway, drops>>
  BY DEF Key
<1>2. Good(state', channel', underway') /\ LyricsFollow(state')
  BY <1>1, UpdateKeeps
<1>3. LinkGood'
  BY <1>1 DEF Inv, LinkGood
<1> QED BY <1>2, <1>3 DEF Inv

(* A key that asks for nothing.                                            *)
LEMMA QuietKeyKeeps ==
  ASSUME Inv, NEW new, Key(new, <<>>), retry' \in BOOLEAN, Good(new, channel, underway)
  PROVE  Inv'
<1>1. MailGood(channel, underway)
  BY DEF Inv, Good
<1>2. channel \o <<>> = channel
  BY <1>1, NothingAsked
<1> QED BY <1>2, KeyKeeps

LEMMA InvParts ==
  ASSUME Inv
  PROVE  /\ Good(state, channel, underway) /\ state \in States /\ MailGood(channel, underway)
         /\ SearchGood(state.search, channel, underway)
         /\ ViewsGood(state.views, state.nextSerial, channel, underway)
         /\ LibraryGood(state.library, channel, underway)
         /\ LyricsGood(state.lyrics, state.lyricsGeneration, channel, underway)
         /\ state.track \in Nat /\ state.nextSerial \in Nat /\ state.lyricsGeneration \in Nat
         /\ state.views \in [Stacks -> Seq(ViewSet)]
         /\ keys \in Nat /\ retry \in BOOLEAN
BY DEF Inv, Good, States, LinkGood

(* What the view stacks and the track are replaced by leaves the rest as   *)
(* it was.                                                                 *)
LEMMA NextTrack ==
  ASSUME NEW st \in States, NEW t \in Nat
  PROVE  LET new == [st EXCEPT !.track = t]
         IN  /\ new \in States
             /\ new.search = st.search /\ new.views = st.views
             /\ new.nextSerial = st.nextSerial /\ new.library = st.library
             /\ new.lyrics = st.lyrics /\ new.lyricsGeneration = st.lyricsGeneration
BY DEF States

Opened(st, n, views) == [st EXCEPT !.nextSerial = n, !.views = views]

LEMMA NextSerial ==
  ASSUME NEW st \in States, NEW n \in Nat, NEW views \in [Stacks -> Seq(ViewSet)]
  PROVE  LET new == Opened(st, n, views)
         IN  /\ new \in States /\ new.views = views /\ new.nextSerial = n
             /\ new.search = st.search /\ new.library = st.library
             /\ new.lyrics = st.lyrics /\ new.lyricsGeneration = st.lyricsGeneration
BY DEF States, Opened

LEMMA TrackChangesKeeps == ASSUME Inv, TrackChanges PROVE Inv'
<1> DEFINE new == [state EXCEPT !.track = state.track + 1]
<1>1. Key(new, <<>>) /\ retry' \in BOOLEAN
  BY InvParts DEF TrackChanges
<1>2. /\ new \in States
      /\ new.search = state.search /\ new.views = state.views
      /\ new.nextSerial = state.nextSerial /\ new.library = state.library
      /\ new.lyrics = state.lyrics /\ new.lyricsGeneration = state.lyricsGeneration
  <2>1. state \in States /\ state.track + 1 \in Nat
    BY InvParts
  <2> HIDE DEF Inv
  <2> QED BY <2>1, NextTrack
<1> HIDE DEF new
<1>3. Good(new, channel, underway)
  BY <1>2, InvParts, GoodOtherwise
<1> QED BY <1>1, <1>3, QuietKeyKeeps

LEMMA ShowSectionKeeps == ASSUME Inv, ShowSection PROVE Inv'
<1>1. PICK s \in Sections : Key([state EXCEPT !.section = s], <<>>)
  BY DEF ShowSection
<1> DEFINE new == [state EXCEPT !.section = s]
<1>2. Key(new, <<>>) /\ retry' \in BOOLEAN
  BY <1>1, InvParts DEF ShowSection
<1>3. /\ new \in States
      /\ new.search = state.search /\ new.views = state.views
      /\ new.nextSerial = state.nextSerial /\ new.library = state.library
      /\ new.lyrics = state.lyrics /\ new.lyricsGeneration = state.lyricsGeneration
  BY InvParts DEF States
<1> HIDE DEF new
<1>4. Good(new, channel, underway)
  BY <1>3, InvParts, GoodOtherwise
<1> QED BY <1>2, <1>4, QuietKeyKeeps

LEMMA ReconnectKeeps == ASSUME Inv, Reconnect PROVE Inv'
<1> DEFINE new == [state EXCEPT !.connection = "connecting"]
<1>1. Key(new, <<>>) /\ retry' \in BOOLEAN
  BY DEF Reconnect
<1>2. /\ new \in States
      /\ new.search = state.search /\ new.views = state.views
      /\ new.nextSerial = state.nextSerial /\ new.library = state.library
      /\ new.lyrics = state.lyrics /\ new.lyricsGeneration = state.lyricsGeneration
  BY InvParts DEF States
<1> HIDE DEF new
<1>3. Good(new, channel, underway)
  BY <1>2, InvParts, GoodOtherwise
<1> QED BY <1>1, <1>3, QuietKeyKeeps

LEMMA SubmitSearchKeeps == ASSUME Inv, SubmitSearch PROVE Inv'
<1> DEFINE begun == Begun(state.search, keys + 1)
           sent == <<SearchRequest(begun)>>
           c == channel
           b == underway
<1>1. retry' \in BOOLEAN
  BY InvParts DEF SubmitSearch
<1>2. CASE state.connection = "connected"
  <2>1. Key([state EXCEPT !.search = begun], sent)
    BY <1>2 DEF SubmitSearch
  <2>2. keys + 1 \in Nat
    BY InvParts
  <2>3. SearchGood(begun, c \o sent, b) /\ sent \in Seq(Requests) /\ \A q \in ToSet(sent) : q.tag = "search"
    BY <2>2, InvParts, SearchBegunWell
  <2> HIDE DEF begun, sent
  <2>4. MailGood(c \o sent, b) /\ Others({"search"}, c, b, c \o sent, b)
    BY <2>3, InvParts, AskedOthers
  <2>5. Good([state EXCEPT !.search = begun], c \o sent, b)
    BY <2>3, <2>4, InvParts, GoodSearch
  <2> QED BY <1>1, <2>1, <2>5, KeyKeeps
<1>3. CASE state.connection # "connected"
  <2> DEFINE failed == [state.search EXCEPT !.phase = "failed"]
  <2>1. Key([state EXCEPT !.search = failed], <<>>)
    BY <1>3 DEF SubmitSearch
  <2>2. SearchGood(failed, c, b)
    BY InvParts, SearchFailedWell
  <2> HIDE DEF failed
  <2>3. Others({"search"}, c, b, c, b)
    BY DEF Others, Leaves
  <2>4. Good([state EXCEPT !.search = failed], c, b)
    BY <2>2, <2>3, InvParts, GoodSearch
  <2> QED BY <1>1, <2>1, <2>4, QuietKeyKeeps
<1> QED BY <1>2, <1>3

LEMMA MoreOfSearchKeeps == ASSUME Inv, MoreOfSearch PROVE Inv'
<1>1. PICK t \in Tabs :
        /\ Askable(state.search.lists[t])
        /\ Key([state EXCEPT !.search.lists[t].loading = TRUE],
               <<Request("search", state.search.generation, state.search.query, t,
                         Len(state.search.lists[t].rows))>>)
  BY DEF MoreOfSearch
<1> DEFINE x == [state.search EXCEPT !.lists[t].loading = TRUE]
           sent == <<Request("search", state.search.generation, state.search.query, t,
                             Len(state.search.lists[t].rows))>>
           c == channel
           b == underway
<1>2. Key([state EXCEPT !.search = x], sent)
  <2>1. [state EXCEPT !.search = x] = [state EXCEPT !.search.lists[t].loading = TRUE]
    OBVIOUS
  <2> QED BY <1>1, <2>1
<1>3. retry' \in BOOLEAN /\ state.search.phase = "done" /\ ~(state.search.lists[t].loading = TRUE)
  BY <1>1, InvParts DEF MoreOfSearch, Askable
<1>4. SearchGood(x, c \o sent, b) /\ sent \in Seq(Requests) /\ \A q \in ToSet(sent) : q.tag = "search"
  BY <1>3, InvParts, SearchMoreWell
<1> HIDE DEF x, sent
<1>5. MailGood(c \o sent, b) /\ Others({"search"}, c, b, c \o sent, b)
  BY <1>4, InvParts, AskedOthers
<1>6. Good([state EXCEPT !.search = x], c \o sent, b)
  BY <1>4, <1>5, InvParts, GoodSearch
<1> QED BY <1>2, <1>3, <1>6, KeyKeeps

LEMMA MoreOfLibraryKeeps == ASSUME Inv, MoreOfLibrary PROVE Inv'
<1>1. PICK p \in Parts :
        /\ state.library.parts[p].phase = "done" /\ Askable(state.library.parts[p].list)
        /\ Key([state EXCEPT !.library.parts[p].list.loading = TRUE],
               <<Request("library_more", state.library.generation, None, p,
                         Len(state.library.parts[p].list.rows))>>)
  BY DEF MoreOfLibrary
<1> DEFINE x == [state.library EXCEPT !.parts[p].list.loading = TRUE]
           sent == <<Request("library_more", state.library.generation, None, p,
                             Len(state.library.parts[p].list.rows))>>
           c == channel
           b == underway
<1>2. Key([state EXCEPT !.library = x], sent)
  <2>1. [state EXCEPT !.library = x] = [state EXCEPT !.library.parts[p].list.loading = TRUE]
    OBVIOUS
  <2> QED BY <1>1, <2>1
<1>3. retry' \in BOOLEAN /\ ~(state.library.parts[p].list.loading = TRUE)
  BY <1>1, InvParts DEF MoreOfLibrary, Askable
<1>4. LibraryGood(x, c \o sent, b) /\ sent \in Seq(Requests) /\ \A q \in ToSet(sent) : q.tag = "library_more"
  BY <1>1, <1>3, InvParts, LibraryMoreWell
<1> HIDE DEF x, sent
<1>5. MailGood(c \o sent, b) /\ Others({"library", "library_more"}, c, b, c \o sent, b)
  <2>1. \A q \in ToSet(sent) : q.tag \in {"library", "library_more"}
    BY <1>4
  <2> QED BY <2>1, <1>4, InvParts, AskedOthers
<1>6. Good([state EXCEPT !.library = x], c \o sent, b)
  BY <1>4, <1>5, InvParts, GoodLibrary
<1> QED BY <1>2, <1>3, <1>6, KeyKeeps

LEMMA ViewsKeyKeeps ==
  ASSUME Inv, NEW new, NEW sent, Key(new, sent), retry' \in BOOLEAN, new \in States,
         new.search = state.search, new.library = state.library, new.lyrics = state.lyrics,
         new.lyricsGeneration = state.lyricsGeneration,
         ViewsGood(new.views, new.nextSerial, channel \o sent, underway),
         sent \in Seq(Requests), \A q \in ToSet(sent) : q.tag = "view"
  PROVE  Inv'
<1>1. MailGood(channel \o sent, underway)
      /\ Others({"view"}, channel, underway, channel \o sent, underway)
  <2>1. \A q \in ToSet(sent) : q.tag \in {"view"}
    OBVIOUS
  <2> QED BY <2>1, InvParts, AskedOthers
<1>2. Good(new, channel \o sent, underway)
  BY <1>1, InvParts, GoodViews
<1> QED BY <1>2, KeyKeeps

LEMMA OpenViewKeeps == ASSUME Inv, OpenView PROVE Inv'
<1> DEFINE n == state.nextSerial
           s == state.section
           sent == <<Request("view", n, n, "all", 0)>>
<1>1. s \in Stacks /\ retry' \in BOOLEAN
  BY InvParts DEF OpenView
<1>2. PICK kind \in Kinds :
        Key([state EXCEPT !.nextSerial = @ + 1, !.views[s] = Append(@, NewView(n, kind))], sent)
  BY DEF OpenView
<1> DEFINE views == [state.views EXCEPT ![s] = Append(@, NewView(n, kind))]
           new == Opened(state, n + 1, views)
<1>3. Key(new, sent)
  <2>1. new = [state EXCEPT !.nextSerial = @ + 1, !.views[s] = Append(@, NewView(n, kind))]
    BY DEF Opened
  <2> QED BY <1>2, <2>1
<1>4. /\ ViewsGood(views, n + 1, channel \o sent, underway)
      /\ sent \in Seq(Requests) /\ \A q \in ToSet(sent) : q.tag = "view"
  BY <1>1, InvParts, ViewsOpenedWell
<1>5. views \in [Stacks -> Seq(ViewSet)]
  BY <1>4 DEF ViewsGood
<1> HIDE DEF views, sent
<1>6. /\ new \in States /\ new.views = views /\ new.nextSerial = n + 1
      /\ new.search = state.search /\ new.library = state.library
      /\ new.lyrics = state.lyrics /\ new.lyricsGeneration = state.lyricsGeneration
  <2>1. state \in States /\ n + 1 \in Nat
    BY InvParts
  <2> QED BY <2>1, <1>5, NextSerial
<1> HIDE DEF new
<1> QED BY <1>1, <1>3, <1>4, <1>6, ViewsKeyKeeps

LEMMA CloseViewKeeps == ASSUME Inv, CloseView PROVE Inv'
<1> DEFINE s == state.section
           views == [state.views EXCEPT ![s] = Front(@)]
           new == [state EXCEPT !.views = views]
<1>1. s \in Stacks /\ retry' \in BOOLEAN /\ state.views[s] # <<>>
  BY InvParts DEF CloseView
<1>2. Key(new, <<>>)
  <2>1. new = [state EXCEPT !.views[s] = Front(@)]
    OBVIOUS
  <2> QED BY <2>1 DEF CloseView
<1>3. ViewsGood(views, state.nextSerial, channel, underway)
  BY <1>1, InvParts, ViewsClosedWell
<1>4. views \in [Stacks -> Seq(ViewSet)]
  BY <1>3 DEF ViewsGood
<1> HIDE DEF views
<1>5. /\ new \in States /\ new.views = views /\ new.nextSerial = state.nextSerial
      /\ new.search = state.search /\ new.library = state.library
      /\ new.lyrics = state.lyrics /\ new.lyricsGeneration = state.lyricsGeneration
  BY <1>4, InvParts, StateIs
<1> HIDE DEF new
<1>6. channel \o <<>> = channel
  BY InvParts, NothingAsked
<1>7. <<>> \in Seq(Requests) /\ \A q \in ToSet(<<>>) : q.tag = "view"
  BY DEF ToSet
<1> QED BY <1>1, <1>2, <1>3, <1>5, <1>6, <1>7, ViewsKeyKeeps

LEMMA MoreOfViewKeeps == ASSUME Inv, MoreOfView PROVE Inv'
<1> DEFINE s == state.section
           n == Len(state.views[s])
           v == Last(state.views[s])
<1>1. /\ s \in Stacks /\ retry' \in BOOLEAN /\ state.views[s] # <<>> /\ v.phase = "done"
      /\ state.views[s] \in Seq(ViewSet)
  <2>1. s \in {"search", "library"} /\ state.views[s] # <<>> /\ v.phase = "done" /\ retry' = retry
    BY DEF MoreOfView
  <2> QED BY <2>1, InvParts DEF Stacks
<1>2. PICK l \in DOMAIN v.lists :
        /\ Askable(v.lists[l])
        /\ Key([state EXCEPT !.views[s][n].lists[l].loading = TRUE],
               <<Request("view", v.serial, v.serial, l, Len(v.lists[l].rows))>>)
  BY DEF MoreOfView
<1>3. n \in DOMAIN state.views[s] /\ v = state.views[s][n]
  BY <1>1, FrontKeeps
<1> DEFINE w == state.views[s][n]
           sent == NextOf(w, l)
           views == Turning(state.views, s, n, l)
           new == [state EXCEPT !.views = views]
<1>4. Key(new, sent)
  <2>1. new = [state EXCEPT !.views[s][n].lists[l].loading = TRUE]
    BY DEF Turning
  <2>2. sent = <<Request("view", v.serial, v.serial, l, Len(v.lists[l].rows))>>
    BY <1>3 DEF NextOf
  <2> HIDE DEF sent, new, v
  <2> QED BY <2>2, <1>2, <1>3, <2>1
<1>5. l \in DOMAIN w.lists /\ ~(w.lists[l].loading = TRUE) /\ w.phase = "done"
  BY <1>1, <1>2, <1>3 DEF Askable
<1>6. /\ ViewsGood(views, state.nextSerial, channel \o sent, underway)
      /\ sent \in Seq(Requests) /\ \A q \in ToSet(sent) : q.tag = "view"
  <2>1. ViewsGood(state.views, state.nextSerial, channel, underway) /\ MailGood(channel, underway)
    BY InvParts
  <2>2. s \in Stacks /\ n \in DOMAIN state.views[s] /\ state.views[s][n].phase = "done"
    BY <1>1, <1>3, <1>5
  <2>3. l \in DOMAIN state.views[s][n].lists /\ ~(state.views[s][n].lists[l].loading = TRUE)
    BY <1>5
  <2>4. MayTurn(state.views, s, n, l)
    BY <2>2, <2>3 DEF MayTurn
  <2> HIDE DEF s, n
  <2> QED BY <2>1, <2>4, ViewsMoreWell
<1>7. views \in [Stacks -> Seq(ViewSet)]
  BY <1>6 DEF ViewsGood
<1> HIDE DEF views, sent
<1>8. /\ new \in States /\ new.views = views /\ new.nextSerial = state.nextSerial
      /\ new.search = state.search /\ new.library = state.library
      /\ new.lyrics = state.lyrics /\ new.lyricsGeneration = state.lyricsGeneration
  BY <1>7, InvParts, StateIs
<1> HIDE DEF new
<1> QED BY <1>1, <1>4, <1>6, <1>8, ViewsKeyKeeps

LEMMA SetFavoriteKeeps == ASSUME Inv, SetFavorite PROVE Inv'
<1> DEFINE sent == <<Request("favorite", 0, None, "all", 0)>>
           c == channel
           b == underway
           d == c \o sent
<1>1. Key(state, sent) /\ retry' \in BOOLEAN
  BY InvParts DEF SetFavorite
<1>2. sent \in Seq(Requests) /\ \A q \in ToSet(sent) : q.tag \in {"favorite"}
  BY DEF Request, Requests, Tags, Names, None, ToSet
<1>3. MailGood(d, b) /\ Others({"favorite"}, c, b, d, b)
  BY <1>2, InvParts, AskedOthers
<1>4. \A tag \in {"search", "view", "library", "library_more", "lyrics"} : Leaves(tag, c, b, d, b)
  BY <1>3 DEF Others
<1> HIDE DEF d
<1>5. SearchGood(state.search, d, b)
  BY <1>4, InvParts, SearchKept
<1>6. ViewsGood(state.views, state.nextSerial, d, b)
  BY <1>4, InvParts, ViewsKept
<1>7. LibraryGood(state.library, d, b)
  BY <1>4, InvParts, LibraryKept
<1>8. LyricsGood(state.lyrics, state.lyricsGeneration, d, b)
  BY <1>4, InvParts, LyricsKept
<1>9. Good(state, d, b)
  BY <1>3, <1>5, <1>6, <1>7, <1>8, InvParts DEF Good
<1> QED BY <1>1, <1>9, KeyKeeps DEF d

(* The task of the connection takes requests in order and tells its news.  *)
LEMMA SendKeeps == ASSUME Inv, SendRequest PROVE Inv'
<1> DEFINE c == channel
           b == underway
           d == Tail(channel)
           e == BagAdd(underway, Head(channel))
<1>1. /\ channel # <<>> /\ channel' = d /\ underway' = e
      /\ UNCHANGED <<link, retry, news, state, keys, drops>>
  BY DEF SendRequest
<1>2. MailGood(d, e) /\ \A tag : Leaves(tag, c, b, d, e)
  BY <1>1, InvParts, SentOut
<1> HIDE DEF d, e
<1>3. SearchGood(state.search, d, e)
  BY <1>2, InvParts, SearchKept
<1>4. ViewsGood(state.views, state.nextSerial, d, e)
  BY <1>2, InvParts, ViewsKept
<1>5. LibraryGood(state.library, d, e)
  BY <1>2, InvParts, LibraryKept
<1>6. LyricsGood(state.lyrics, state.lyricsGeneration, d, e)
  BY <1>2, InvParts, LyricsKept
<1>7. Good(state, d, e)
  BY <1>2, <1>3, <1>4, <1>5, <1>6, InvParts DEF Good
<1>8. LinkGood' /\ LyricsFollow(state')
  BY <1>1 DEF Inv, LinkGood
<1> QED BY <1>1, <1>7, <1>8 DEF Inv

LEMMA LinkKeeps ==
  ASSUME Inv, UNCHANGED <<channel, underway, state>>, LinkGood'
  PROVE  Inv'
BY DEF Inv

LEMMA TellsKeeps ==
  ASSUME Inv, NEW what \in {"connected", "disconnected", "refused"}, Tells(what),
         link' \in {"trying", "up", "waiting", "refused"}, drops' \in Nat
  PROVE  Inv'
<1> DEFINE S == {"connected", "disconnected", "refused"}
<1>1. /\ retry \in BOOLEAN /\ news \in Seq(S) /\ keys \in Nat
  BY DEF Inv, LinkGood
<1>2. /\ Len(news) < MaxNews /\ news' = Append(news, what)
      /\ UNCHANGED <<retry, channel, underway, state, keys>>
  BY DEF Tells
<1>3. what \in S
  OBVIOUS
<1> HIDE DEF S
<1>4. news' \in Seq(S) /\ Len(news') = Len(news) + 1 /\ Len(news) \in Nat
  BY <1>1, <1>2, <1>3, AppendProperties, LenProperties
<1>5. Len(news') <= MaxNews
  <2>1. MaxNews \in Nat
    BY TuiAssumption
  <2> QED BY <2>1, <1>2, <1>4
<1>6. LinkGood'
  BY <1>1, <1>2, <1>4, <1>5 DEF LinkGood, S
<1> QED BY <1>2, <1>6, LinkKeeps

LEMMA TaskKeeps == ASSUME Inv, Task PROVE Inv'
<1>1. drops \in Nat
  BY DEF Inv, LinkGood
<1>2. CASE Attempts
  BY <1>1, <1>2, TellsKeeps DEF Attempts, Connect, FailToConnect, MeetAnother
<1>3. CASE WaitEnds \/ TakeRetry
  <2>1. LinkGood' /\ UNCHANGED <<channel, underway, state>>
    BY <1>3 DEF WaitEnds, TakeRetry, Inv, LinkGood
  <2> QED BY <2>1, LinkKeeps
<1> QED BY <1>2, <1>3, SendKeeps DEF Task

LEMMA LoseConnectionKeeps == ASSUME Inv, LoseConnection PROVE Inv'
<1>1. drops' \in Nat /\ link' = "waiting" /\ Tells("disconnected")
  BY DEF LoseConnection, Inv, LinkGood
<1> QED BY <1>1, TellsKeeps

LEMMA NextKeeps == ASSUME Inv, [Next]_vars PROVE Inv'
<1>1. CASE Answers
  BY <1>1, AnswerKeeps DEF Answers
<1>2. CASE Hears
  BY <1>2, ConnectedKeeps, DisconnectedKeeps, RefusedKeeps DEF Hears
<1>3. CASE User
  BY <1>3, TrackChangesKeeps, ShowSectionKeeps, SubmitSearchKeeps, OpenViewKeeps, CloseViewKeeps,
     MoreOfViewKeeps, MoreOfSearchKeeps, MoreOfLibraryKeeps, SetFavoriteKeeps, ReconnectKeeps
     DEF User
<1>4. CASE UNCHANGED vars
  BY <1>4 DEF vars, Inv, LinkGood
<1> QED BY <1>1, <1>2, <1>3, <1>4, TaskKeeps, LoseConnectionKeeps DEF Next

(* Everything the interface remembers and everything it has asked for fit  *)
(* together, whatever the user does and however late an answer comes.      *)
THEOREM Invariance == Spec => []Inv
<1>1. Init => Inv
  BY InitKeeps
<1>2. Inv /\ [Next]_vars => Inv'
  BY NextKeeps
<1> QED BY <1>1, <1>2, PTL DEF Spec

---------------------------------------------------------------------------
LEMMA ViewsShown ==
  ASSUME Inv, NEW v \in Views
  PROVE  ViewGood(v, channel, underway) /\ v.serial < state.nextSerial
<1>1. PICK s \in Stacks : v \in ToSet(state.views[s])
  BY DEF Views
<1>2. PICK i \in DOMAIN state.views[s] : v = state.views[s][i]
  BY <1>1 DEF ToSet
<1> QED BY <1>2, InvParts DEF ViewsGood

LEMMA ViewWaits ==
  ASSUME NEW v, NEW c, NEW b, ViewGood(v, c, b)
  PROVE  /\ v.phase = "loading" => OutFor(c, b, "view", v.serial, "all") # {}
         /\ \A l \in ListsOf(v.kind) : v.lists[l].loading = TRUE =>
              OutFor(c, b, "view", v.serial, l) # {}
BY DEF ViewGood

LEMMA InvTypes == Inv => TypeOK
<1> SUFFICES ASSUME Inv PROVE TypeOK
  OBVIOUS
<1>1. /\ link \in {"trying", "up", "waiting", "refused"} /\ retry \in BOOLEAN
      /\ ToSet(news) \subseteq {"connected", "disconnected", "refused"} /\ Len(news) <= MaxNews
  <2> DEFINE S == {"connected", "disconnected", "refused"}
  <2>1. /\ link \in {"trying", "up", "waiting", "refused"} /\ retry \in BOOLEAN
        /\ news \in Seq(S) /\ Len(news) <= MaxNews
    BY DEF Inv, LinkGood
  <2> HIDE DEF S
  <2>2. \A i \in DOMAIN news : news[i] \in S
    BY <2>1, LenProperties, ElementOfSeq
  <2> QED BY <2>1, <2>2 DEF ToSet, S
<1>2. /\ state.connection \in {"connecting", "connected", "disconnected", "refused"}
      /\ state.section \in Sections /\ state.track \in Nat
  BY InvParts DEF States
<1>3. state.search.phase \in Phases /\ state.lyrics.phase \in Phases
      /\ \A p \in Parts : state.library.parts[p].phase \in Phases
  <2>1. state.search.phase \in Phases
    BY InvParts DEF SearchGood, Searches
  <2>2. state.lyrics.phase \in Phases
    BY InvParts DEF LyricsGood, LyricsSet
  <2>3. \A p \in Parts : state.library.parts[p].phase \in Phases
    BY InvParts, LibraryFacts
  <2> QED BY <2>1, <2>2, <2>3
<1>4. \A v \in Views : v.phase \in Phases \ {"none"} /\ v.serial < state.nextSerial
  BY ViewsShown, ViewFacts
<1>5. \A s, t \in Stacks : \A i \in DOMAIN state.views[s], j \in DOMAIN state.views[t] :
        state.views[s][i].serial = state.views[t][j].serial => s = t /\ i = j
  BY InvParts DEF ViewsGood
<1>6. ASSUME NEW r \in Out(channel, underway)
      PROVE  /\ r.tag = "search" => r.number <= state.search.generation
             /\ r.tag = "view" => r.number < state.nextSerial
             /\ r.tag \in {"library", "library_more"} => r.number <= state.library.generation
             /\ r.tag = "lyrics" => r.number <= state.lyricsGeneration
  <2>1. r.tag = "search" => r.number <= state.search.generation
    BY InvParts DEF SearchGood
  <2>2. r.tag = "view" => r.number < state.nextSerial
    BY InvParts DEF ViewsGood
  <2>3. r.tag \in {"library", "library_more"} => r.number <= state.library.generation
    BY InvParts DEF LibraryGood
  <2>4. r.tag = "lyrics" => r.number <= state.lyricsGeneration
    BY InvParts DEF LyricsGood
  <2> QED BY <2>1, <2>2, <2>3, <2>4
<1> QED BY <1>1, <1>2, <1>3, <1>4, <1>5, <1>6 DEF TypeOK, Out

(* The state has its types; a view has a number of its own and nothing is  *)
(* asked with a number that was not given out.                             *)
THEOREM TypesHold == Spec => []TypeOK
<1>1. Inv => TypeOK
  BY InvTypes
<1> QED BY <1>1, Invariance, PTL

LEMMA InvRows == Inv => RowsAreTheirOwn
<1> SUFFICES ASSUME Inv PROVE RowsAreTheirOwn
  OBVIOUS
<1>1. \A t \in Tabs : ShowsInOrder(state.search.lists[t], state.search.query, t)
  BY InvParts DEF SearchGood, PagedGood
<1>2. \A p \in Parts : ShowsInOrder(state.library.parts[p].list, None, p)
  BY InvParts, LibraryFacts
<1>3. ASSUME NEW v \in Views, NEW l \in DOMAIN v.lists
      PROVE  IF v.kind = "artist"
               THEN \A i \in DOMAIN v.lists[l].rows :
                      v.lists[l].rows[i].of = v.serial /\ v.lists[l].rows[i].list = l
               ELSE ShowsInOrder(v.lists[l], v.serial, l)
  <2>1. ViewGood(v, channel, underway)
    BY ViewsShown
  <2>2. l \in ListsOf(v.kind)
    BY <2>1, ViewFacts
  <2>3. /\ v.kind = "artist" => OwnRows(v.lists[l], v.serial, l)
        /\ v.kind # "artist" => PagedGood(v.lists[l], "view", v.serial, l, v.serial, channel, underway)
    BY <2>1, <2>2, ViewFacts
  <2> QED BY <2>3 DEF OwnRows, PagedGood
<1>4. state.lyrics.text \in {None, state.lyrics.id}
  BY InvParts DEF LyricsGood
<1>5. state.section = "lyrics" /\ state.connection = "connected" /\ state.track # None =>
        state.lyrics.id = state.track
  BY DEF Inv, LyricsFollow
<1> QED BY <1>1, <1>2, <1>3, <1>4, <1>5 DEF RowsAreTheirOwn

(* What is shown is what it says it is: results of the query, a view's own *)
(* rows, the library's, each once and in order, and the lyrics of the      *)
(* track that plays.                                                       *)
THEOREM WhatIsShownIsItsOwn == Spec => []RowsAreTheirOwn
<1>1. Inv => RowsAreTheirOwn
  BY InvRows
<1> QED BY <1>1, Invariance, PTL

LEMMA AskedForIsAwaited ==
  ASSUME NEW tag, NEW n, NEW l, OutFor(channel, underway, tag, n, l) # {}
  PROVE  Awaited(tag, n, l)
BY DEF OutFor, Out, Is, Awaited

LEMMA InvAwaited == Inv => LoadingIsAwaited
<1> SUFFICES ASSUME Inv PROVE LoadingIsAwaited
  OBVIOUS
<1>1. state.search.phase = "loading" => Awaited("search", state.search.generation, "all")
  <2>1. state.search.phase = "loading" =>
          OutFor(channel, underway, "search", state.search.generation, "all") # {}
    BY InvParts DEF SearchGood
  <2> QED BY <2>1, AskedForIsAwaited
<1>2. ASSUME NEW t \in Tabs, state.search.lists[t].loading
      PROVE  Awaited("search", state.search.generation, t)
  <2>1. state.search.lists[t].loading = TRUE
    <3>1. state.search.lists[t] \in Lists
      BY InvParts DEF SearchGood, Searches
    <3>2. state.search.lists[t].loading \in BOOLEAN
      BY <3>1 DEF Lists
    <3> QED BY <3>2, <1>2
  <2>2. OutFor(channel, underway, "search", state.search.generation, t) # {}
    BY <2>1, InvParts DEF SearchGood
  <2> QED BY <2>2, AskedForIsAwaited
<1>3. ASSUME NEW v \in Views
      PROVE  /\ v.phase = "loading" => Awaited("view", v.serial, "all")
             /\ \A l \in DOMAIN v.lists : v.lists[l].loading => Awaited("view", v.serial, l)
  <2>1. ViewGood(v, channel, underway)
    BY ViewsShown
  <2>2. /\ v.phase = "loading" => OutFor(channel, underway, "view", v.serial, "all") # {}
        /\ \A k \in ListsOf(v.kind) : v.lists[k].loading = TRUE =>
             OutFor(channel, underway, "view", v.serial, k) # {}
    BY <2>1, ViewWaits
  <2>3. ASSUME NEW l \in DOMAIN v.lists, v.lists[l].loading PROVE Awaited("view", v.serial, l)
    <3>1. l \in ListsOf(v.kind) /\ v.lists[l] \in Lists
      BY <2>1, ViewFacts
    <3>2. v.lists[l].loading \in BOOLEAN
      BY <3>1 DEF Lists
    <3>3. v.lists[l].loading = TRUE
      BY <3>2, <2>3
    <3>4. OutFor(channel, underway, "view", v.serial, l) # {}
      BY <3>1, <3>3, <2>2
    <3> QED BY <3>4, AskedForIsAwaited
  <2> QED BY <2>2, <2>3, AskedForIsAwaited
<1>4. ASSUME NEW p \in Parts, state.library.parts[p].phase = "loading"
      PROVE  Awaited("library", state.library.generation, p)
  <2>1. OutFor(channel, underway, "library", state.library.generation, p) # {}
    BY <1>4, InvParts DEF LibraryGood, PartGood
  <2> QED BY <2>1, AskedForIsAwaited
<1>5. state.lyrics.phase = "loading" => Awaited("lyrics", state.lyrics.generation, "all")
  <2>1. state.lyrics.phase = "loading" =>
          OutFor(channel, underway, "lyrics", state.lyrics.generation, "all") # {}
    BY InvParts DEF LyricsGood
  <2> QED BY <2>1, AskedForIsAwaited
<1> QED BY <1>1, <1>2, <1>3, <1>4, <1>5 DEF LoadingIsAwaited

(* Nothing is shown as loading that has no answer on its way: neither a    *)
(* lost connection nor a number that moves on leaves a list waiting.       *)
THEOREM NothingWaitsInVain == Spec => []LoadingIsAwaited
<1>1. Inv => LoadingIsAwaited
  BY InvAwaited
<1> QED BY <1>1, Invariance, PTL
=============================================================================
