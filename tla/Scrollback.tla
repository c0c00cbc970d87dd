------------------------------ MODULE Scrollback -------------------------------
(***************************************************************************)
(* The scrollback of one shell (terminal-model/src/history.rs and the      *)
(* TerminalModel around it), the daemon's two-lock answer to RequestHistory *)
(* (daemon/src/conn.rs), and the browser paging backwards through it       *)
(* (web/src/client/app.ts fetchOlderHistory) while the shell prints and    *)
(* the terminal is resized.  The emulator is external: a feed or a resize  *)
(* may push lines off its screen.  A line is its commit number and its     *)
(* length in bytes.                                                        *)
(***************************************************************************)
EXTENDS Naturals, Sequences

CONSTANTS
    LineSizes,      \* lengths a line may have
    MaxHistoryLines, MaxHistoryBytes,   \* TerminalModelConfig
    PageLines, PageBytes,               \* HISTORY_PAGE_LINES, HISTORY_PAGE_BYTES
    MinCols, Widths,                    \* MIN_COLS, widths clients ask for
    MaxRevision     \* bound: feeds and resizes

ASSUME HistoryLimits == /\ MaxHistoryLines \in Nat \ {0} /\ MaxHistoryBytes \in Nat \ {0}
                        /\ LineSizes \subseteq Nat

VARIABLES
    ring,           \* HistoryRing: lines, first_id, next_id, bytes
    cols, revision, \* TerminalModel
    pager,          \* the page's history: lines held, oldestFetched, exhausted, fetching
    asked,          \* RequestHistory frames on their way to the daemon
    serving,        \* whether the handler is between its two locks
    replies         \* HistoryChunk and HistoryEnd frames on their way back

scrollVars == <<ring, cols, revision, pager, asked, serving, replies>>

ScrollInit ==
    /\ ring = [lines |-> <<>>, first_id |-> 1, next_id |-> 1, bytes |-> 0]
    /\ cols = MinCols /\ revision = 1
    /\ pager = [on |-> FALSE, held |-> <<>>, oldestFetched |-> 0, oldestAvailable |-> 0,
                exhausted |-> FALSE, fetching |-> FALSE]
    /\ asked = <<>> /\ serving = FALSE /\ replies = <<>>

-----------------------------------------------------------------------------
(* HistoryRing *)

Bytes(ls) ==
    LET sum[n \in 0 .. Len(ls)] == IF n = 0 THEN 0 ELSE sum[n - 1] + ls[n].size
    IN  sum[Len(ls)]

\* How many of the front lines leave: the fewest that bring the ring within
\* both bounds, never the line just pushed.
Over(ls) == Len(ls) > MaxHistoryLines \/ Bytes(ls) > MaxHistoryBytes
Drop(ls, k) == SubSeq(ls, k + 1, Len(ls))

Evictions(ls) ==
    CHOOSE k \in 0..(Len(ls) - 1) :
        /\ ~Over(Drop(ls, k)) \/ k = Len(ls) - 1
        /\ \A j \in 0..(k - 1) : Over(Drop(ls, j))

push(r, size) ==
    LET all == Append(r.lines, [no |-> r.next_id, size |-> size])
        k == Evictions(all)
    IN  [lines |-> Drop(all, k), first_id |-> r.first_id + k,
         next_id |-> r.next_id + 1, bytes |-> Bytes(Drop(all, k))]

oldest_id(r) == IF r.lines = <<>> THEN 0 ELSE r.first_id
newest_id(r) == r.next_id - 1

Least(a, b) == IF a < b THEN a ELSE b

\* How many lines ending at `upper' a page takes: at least one, then as many
\* as fit both limits and are retained.
Fit(r, upper, k) ==
    LET page == SubSeq(r.lines, upper - r.first_id + 2 - k, upper - r.first_id + 1)
    IN  k = 1 \/ (k <= PageLines /\ Bytes(page) <= PageBytes)
Taken(r, upper) ==
    CHOOSE k \in 1..(upper - r.first_id + 1) :
        /\ Fit(r, upper, k)
        /\ k = upper - r.first_id + 1 \/ ~Fit(r, upper, k + 1)

\* The bug of reading `before_line_id' as inclusive.
range_inclusive(r, before) ==
    LET upper == IF before = 0 THEN newest_id(r) ELSE Least(before, newest_id(r))
    IN  IF r.lines = <<>> \/ upper = 0 \/ upper < r.first_id
        THEN [first |-> 0, lines |-> <<>>,
              truncated |-> upper # 0 /\ newest_id(r) # 0 /\ upper < r.first_id]
        ELSE LET k == Taken(r, upper)
             IN  [first |-> upper + 1 - k,
                  lines |-> SubSeq(r.lines, upper - r.first_id + 2 - k, upper - r.first_id + 1),
                  truncated |-> upper + 1 - k = r.first_id /\ r.first_id > 1]

range(r, before) ==
    LET upper == IF before = 0 THEN newest_id(r) ELSE Least(before - 1, newest_id(r))
    IN  IF r.lines = <<>> \/ upper = 0 \/ upper < r.first_id
        THEN [first |-> 0, lines |-> <<>>,
              truncated |-> upper # 0 /\ newest_id(r) # 0 /\ upper < r.first_id]
        ELSE LET k == Taken(r, upper)
             IN  [first |-> upper + 1 - k,
                  lines |-> SubSeq(r.lines, upper - r.first_id + 2 - k, upper - r.first_id + 1),
                  truncated |-> upper + 1 - k = r.first_id /\ r.first_id > 1]

-----------------------------------------------------------------------------
(* TerminalModel: each feed of text and each real resize is a revision, and  *)
(* the lines the emulator gives up are committed in order.                   *)

\* What a feed or a resize may make of the ring: nothing scrolled off, or a
\* line did.
commit(r) == {r} \cup {push(r, size) : size \in LineSizes}

feed ==
    /\ revision < MaxRevision
    /\ ring' \in commit(ring)
    /\ revision' = revision + 1
    /\ UNCHANGED <<cols, pager, asked, serving, replies>>

\* Zero keeps the size (session-core resize); anything else is raised to the
\* floor, and re-wrapping may push lines off the screen.
resize(c) ==
    LET clamped == IF c < MinCols THEN MinCols ELSE c IN
    /\ c # 0 /\ clamped # cols /\ revision < MaxRevision
    /\ ring' \in commit(ring)
    /\ cols' = clamped /\ revision' = revision + 1
    /\ UNCHANGED <<pager, asked, serving, replies>>

-----------------------------------------------------------------------------
(* The daemon's RequestHistory handler: the lines under one lock of the      *)
(* shell, the oldest retained id under another.                              *)

history(before) == range(ring, before)
history_bounds == [oldest |-> oldest_id(ring), newest |-> newest_id(ring)]

SendsChunk ==
    /\ asked # <<>> /\ ~serving
    /\ replies' = Append(replies, [kind |-> "chunk", range |-> history(Head(asked))])
    /\ serving' = TRUE
    /\ UNCHANGED <<ring, cols, revision, pager, asked>>

SendsEnd ==
    /\ serving
    /\ replies' = Append(replies, [kind |-> "end", oldest |-> history_bounds.oldest])
    /\ serving' = FALSE /\ asked' = Tail(asked)
    /\ UNCHANGED <<ring, cols, revision, pager>>

-----------------------------------------------------------------------------
(* The pager *)

Asks(p) ==
    /\ asked' = Append(asked, p.oldestFetched)
    /\ pager' = [p EXCEPT !.fetching = TRUE]

\* ShellAttached carries the bounds; the first page is asked for unless
\* nothing was ever committed.
OpensPager ==
    /\ ~pager.on
    /\ LET p == [pager EXCEPT !.on = TRUE, !.oldestAvailable = history_bounds.oldest,
                              !.exhausted = history_bounds.newest = 0]
       IN  IF p.exhausted THEN pager' = p /\ UNCHANGED asked ELSE Asks(p)
    /\ UNCHANGED <<ring, cols, revision, serving, replies>>

ScrollsUp ==
    /\ pager.on /\ ~pager.fetching /\ ~pager.exhausted /\ pager.oldestFetched # 0
    /\ Asks(pager)
    /\ UNCHANGED <<ring, cols, revision, serving, replies>>

turn_page(p, chunk) ==
    IF chunk.lines = <<>> THEN [p EXCEPT !.exhausted = TRUE, !.fetching = FALSE]
    ELSE [p EXCEPT !.held = chunk.lines \o @, !.oldestFetched = chunk.first,
                   !.exhausted = @ \/ chunk.truncated \/ chunk.first <= p.oldestAvailable,
                   !.fetching = FALSE]

\* The page resolves the request on its chunk; HistoryEnd is ignored.
PageArrives ==
    /\ replies # <<>>
    /\ replies' = Tail(replies)
    /\ LET f == Head(replies)
       IN  pager' = IF f.kind = "chunk" THEN turn_page(pager, f.range) ELSE pager
    /\ UNCHANGED <<ring, cols, revision, asked, serving>>

ScrollNext ==
    \/ feed
    \/ \E c \in Widths : resize(c)
    \/ OpensPager \/ ScrollsUp \/ PageArrives
    \/ SendsChunk \/ SendsEnd

ScrollSpec == ScrollInit /\ [][ScrollNext]_scrollVars

-----------------------------------------------------------------------------
(* Properties *)

\* The pages a client joins have no hole and no line twice, although lines
\* are committed and evicted between its requests (HistoryRing::range,
\* fetchOlderHistory).
PagesJoin ==
    /\ \A i \in 1..(Len(pager.held) - 1) : pager.held[i + 1].no = pager.held[i].no + 1
    /\ pager.held # <<>> => pager.held[1].no = pager.oldestFetched

=============================================================================
