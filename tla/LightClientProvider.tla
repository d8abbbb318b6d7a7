------------------------ MODULE LightClientProvider ------------------------
(***************************************************************************)
(* The chain source over the light client's cache                          *)
(* (src/peer/light_client/provider.rs): a read is answered from the cache  *)
(* while its coin is subscribed to, and fetched otherwise (fetcher.rs).    *)
(* The cache is fed by one full node over a stream of frames; reads that   *)
(* miss go to a node in the pool's rotation.                               *)
(*                                                                         *)
(* Either every node is reliable, and has one chain that grows and         *)
(* reorganises, or none is, and nodes send what they like.  A reliable     *)
(* node pushes one frame for each change of its chain, in order: an update *)
(* if a coin it was asked to follow is rolled back or touched, whatever    *)
(* becomes of it, and a bare peak if none is.                              *)
(* Bound: one read, after which the chain stands still.                    *)
(***************************************************************************)
EXTENDS CoinStateCache, Sequences

CONSTANTS
    Wishes,                     \* bound: what may be subscribed to: [ids, hashes]
    Genesis,                    \* bound: the chains to begin with
    Busy,                       \* bound: the coins that blocks touch
    MaxFrames,                  \* bound: frames on their way
    MaxChains,                  \* bound: chains during one read
    MAX_PUZZLE_STATE_PAGES,
    MAX_ACCUMULATED_COIN_STATES,
    Fabrications                \* bound: the states an unreliable page may hold

ASSUME ProviderAssumption ==
    /\ Genesis \subseteq [Coin -> Life]
    /\ \A lives \in Genesis, c \in Coin :
          /\ lives[c].created \cup lives[c].spent \subseteq {1}
          /\ lives[c].created = {} => lives[c].spent = {}
    /\ Busy \subseteq Coin /\ MaxFrames \in Nat /\ MaxChains \in Nat
    /\ MAX_PUZZLE_STATE_PAGES \in Nat /\ MAX_ACCUMULATED_COIN_STATES \in Nat
    /\ Wishes \subseteq [ids : SUBSET Coin, hashes : SUBSET PuzzleHash]
    /\ \A states \in Fabrications : states \subseteq CoinState /\ NamesCoinsOnce(states)

VARIABLES
    reliable,
    chain, tip,                 \* the life of every coin, and the height
    armed,                      \* the coins the node pushes updates for
    stream,                     \* the frames on their way to the drive loop
    job,                        \* a call that has been answered and not stored
    settled,                    \* history: coins armed while all was quiet
    read,                       \* the read under way: [stage, kind, of]
    seen_peak,                  \* the peak it has read
    found,                      \* the states it has found
    walk,                       \* its place in a paged answer
    reply,
    since,                      \* history: the chains since the read began
    sure,                       \* history: is it to be held to the chain?
    lowered                     \* history: has the peak fallen since?

nodeVars == <<reliable, chain, tip, armed>>
feedVars == <<stream, job, settled>>
readVars == <<read, seen_peak, found, walk, reply, since, sure>>
vars == <<cacheVars, nodeVars, feedVars, readVars, lowered>>

StateOf(c) == [coin |-> c, created |-> chain[c].created, spent |-> chain[c].spent]
Existing(lives) == {c \in Coin : lives[c].created # {}}
Now(ids) == {StateOf(c) : c \in ids \cap Existing(chain)}
CoinsOf(hashes) == {c \in Coin : PuzzleHashOf[c] \in hashes}

NoWalk == [pages |-> 0, held |-> 0, cursor |-> {}, broken |-> FALSE]
NoRead == [stage |-> "idle", kind |-> "record", of |-> {}]

Init ==
    /\ CacheInit
    /\ reliable \in BOOLEAN
    /\ IF reliable THEN chain \in Genesis ELSE chain = [c \in Coin |-> [created |-> {}, spent |-> {}]]
    /\ tip = 1
    /\ armed = {} /\ stream = <<>> /\ job = {} /\ settled = {}
    /\ read = NoRead /\ seen_peak = {} /\ found = {} /\ walk = NoWalk /\ reply = "none"
    /\ since = {} /\ sure = FALSE /\ lowered = FALSE

-----------------------------------------------------------------------------
(* The node.                                                                *)

\* A coin that is touched in a block is created by it, or else spent.
Touched(life, height) ==
    IF life.created = {} THEN [life EXCEPT !.created = {height}]
                         ELSE [life EXCEPT !.spent = {height}]

RolledBack(fork) ==
    [c \in Coin |-> [created |-> {h \in chain[c].created : h <= fork},
                     spent |-> {h \in chain[c].spent : h <= fork}]]

\* The chain gets a new branch from the fork on, whose last block touches coins.
MoveTo(fork, height, touching) ==
    LET base == RolledBack(fork)
        moved == [c \in Coin |-> IF c \in touching THEN Touched(base[c], height) ELSE base[c]]
        told == {c \in armed : c \in touching \/ base[c] # chain[c]}
    IN  /\ \A c \in touching : base[c].spent = {}
        /\ chain' = moved /\ tip' = height
        /\ stream' = Append(stream,
               [update |-> told # {}, height |-> height, fork |-> fork,
                items |-> {[coin |-> c, created |-> moved[c].created, spent |-> moved[c].spent] :
                              c \in told \cap Existing(moved)}])
        /\ since' = IF read.stage = "idle" THEN since ELSE since \cup {moved}

ChainMoves ==
    /\ reliable /\ Len(stream) < MaxFrames /\ Cardinality(since) < MaxChains
    /\ read.stage # "done"
    /\ \E fork, height \in Height, touching \in SUBSET Busy :
          /\ fork <= tip /\ height > fork /\ height >= tip
          /\ MoveTo(fork, height, touching)
          /\ walk' = [walk EXCEPT !.broken = @ \/ \E h \in walk.cursor : fork < h]
    /\ job' = {[j EXCEPT !.quiet = FALSE] : j \in job}
    /\ UNCHANGED <<cacheVars, reliable, armed, settled, read, seen_peak, found, reply, sure, lowered>>

-----------------------------------------------------------------------------
(* The light client keeps its cache: see LightClient for its session.       *)

PeakFalls == \E p \in peak, q \in peak' : q < p
NotesPeak == lowered' = (read.stage # "idle" /\ (lowered \/ PeakFalls))

\* apply_frame
ApplyFrame ==
    /\ stream # <<>>
    /\ LET frame == Head(stream)
       IN  IF frame.update THEN ApplyUpdate(frame.items, frame.height, frame.fork)
                           ELSE SetPeak(frame.height)
    /\ stream' = Tail(stream)
    /\ NotesPeak
    /\ UNCHANGED <<nodeVars, job, settled, readVars>>

Subscribe(ids, hashes) ==
    /\ reliable /\ job = {} /\ read.stage # "done"
    /\ armed' = armed \cup ids \cup CoinsOf(hashes)
    /\ job' = {[kind |-> "track", ids |-> ids, hashes |-> hashes, quiet |-> stream = <<>>,
                answer |-> Now(ids \cup CoinsOf(hashes))]}
    /\ UNCHANGED <<cacheVars, reliable, chain, tip, stream, settled, readVars, lowered>>

Unsubscribe(ids) ==
    /\ reliable /\ job = {} /\ read.stage # "done"
    /\ armed' = (armed \ ids) \cup (armed \cap CoinsOf(subscribed_puzzle_hashes))
    /\ job' = {[kind |-> "untrack", ids |-> ids, hashes |-> {}, quiet |-> FALSE, answer |-> {}]}
    /\ settled' = settled \ ids
    /\ UNCHANGED <<cacheVars, reliable, chain, tip, stream, readVars, lowered>>

\* Coins the cache still holds of a former subscription, and the node denies.
Contradicted(j) == (CoinsIn(coins) \cap j.ids) \ CoinsIn(j.answer)

Store ==
    /\ \E j \in job :
          /\ IF j.kind = "track" THEN Track(j.ids, j.hashes, j.answer) ELSE Untrack(j.ids)
          /\ settled' = IF j.quiet THEN (settled \cup j.ids) \ Contradicted(j)
                                   ELSE settled \ (j.ids \cup CoinsIn(j.answer))
    /\ job' = {}
    /\ UNCHANGED <<nodeVars, stream, readVars, lowered>>

\* What unreliable nodes make of the cache.  Bound: while there is a read, they
\* send Fabrications.
FedAnything ==
    /\ ~ reliable
    /\ \/ read.stage = "idle" /\ CacheNext
       \/ /\ read.stage # "idle"
          /\ \E height \in Height :
                \/ SetPeak(height)
                \/ \E items \in Fabrications, fork \in Height : ApplyUpdate(items, height, fork)
    /\ NotesPeak
    /\ UNCHANGED <<nodeVars, feedVars, readVars>>

-----------------------------------------------------------------------------
(* The reads.                                                               *)

Goes(stage) == read' = [read EXCEPT !.stage = stage]

Reply(word, states) ==
    /\ Goes("done") /\ reply' = word /\ found' = states

\* Mutant: a read that failed is told as an absence.
FailureIsAbsence == Reply("none", {})

Refuse == Reply("error", {})

Idle == <<cacheVars, nodeVars, feedVars>>

\* A coin, or the puzzle hash of a list.  Bound: one read.
BeginRead(kind, of) ==
    /\ read.stage = "idle"
    /\ read' = [stage |-> IF kind = "record" THEN "peak" ELSE IF kind = "spend" THEN "state" ELSE "page",
                kind |-> kind, of |-> {of}]
    /\ since' = {chain} /\ sure' = (reliable /\ stream = <<>>)
    /\ seen_peak' = {} /\ found' = {} /\ walk' = NoWalk /\ reply' = "none"
    /\ lowered' = FALSE
    /\ UNCHANGED Idle

\* peak_height: before the state of one coin, and after a list is fetched.
ReadPeak ==
    /\ read.stage = "peak"
    /\ seen_peak' = peak
    /\ Goes(IF read.kind = "record" THEN "state" ELSE "clamp")
    /\ UNCHANGED <<Idle, found, walk, reply, since, sure, lowered>>

\* Mutant: what is cached is served, whether or not it is still followed.
AnyCached(c) == {s \in coins : s.coin = c}

CacheHit(c) == {s \in coins : s.coin = c /\ c \in subscribed_coins}

StateKnown(states, certain) ==
    /\ found' = states
    /\ sure' = (sure /\ certain)
    /\ Goes(IF read.kind = "record" THEN "clamp" ELSE "spent")
    /\ UNCHANGED <<Idle, seen_peak, walk, reply, since, lowered>>

\* coin_state: from the cache ...
FromCache ==
    /\ read.stage = "state"
    /\ \E c \in read.of :
          /\ CacheHit(c) # {}
          /\ StateKnown(CacheHit(c), c \notin subscribed_coins \/ c \in settled)

\* ... or by a read that subscribes to nothing.
Fetched ==
    /\ read.stage = "state"
    /\ \E c \in read.of :
          /\ CacheHit(c) = {}
          /\ IF reliable
             THEN StateKnown(Now({c}), TRUE)
             ELSE \E states \in Fabrications : StateKnown({s \in states : s.coin = c}, TRUE)

Fails ==
    /\ \/ read.stage = "state" /\ \A c \in read.of : CacheHit(c) = {}
       \/ read.stage \in {"page", "reveal"}
    /\ Refuse
    /\ UNCHANGED <<Idle, seen_peak, walk, since, sure, lowered>>

\* Mutant: heights are served as they were fetched.
AsReported(heights, peaks) == heights

Clamped(heights, peaks) ==
    {IF \E p \in peaks : p < h THEN CHOOSE p \in peaks : TRUE ELSE h : h \in heights}

ClampToPeak(states, peaks) ==
    {[s EXCEPT !.created = Clamped(@, peaks), !.spent = Clamped(@, peaks)] : s \in states}

ReplyRecords ==
    /\ read.stage = "clamp"
    /\ Reply(IF read.kind = "record" /\ found = {} THEN "none" ELSE "some",
             ClampToPeak(found, seen_peak))
    /\ UNCHANGED <<Idle, seen_peak, walk, since, sure, lowered>>

\* coin_spend: there is one once the coin is spent.
ReplyUnspent ==
    /\ read.stage = "spent" /\ \A s \in found : s.spent = {}
    /\ Reply("none", {})
    /\ UNCHANGED <<Idle, seen_peak, walk, since, sure, lowered>>

AskForReveal ==
    /\ read.stage = "spent" /\ \E s \in found : s.spent # {}
    /\ Goes("reveal")
    /\ UNCHANGED <<Idle, seen_peak, found, walk, reply, since, sure, lowered>>

\* A node has the reveal of the height it spent the coin at; it is served if
\* it hashes to the coin's puzzle hash.
Revealed ==
    /\ read.stage = "reveal"
    /\ reliable => \E c \in read.of, s \in found : chain[c].spent = s.spent
    /\ Reply("some", found)
    /\ UNCHANGED <<Idle, seen_peak, walk, since, sure, lowered>>

-----------------------------------------------------------------------------
(* collect_paged.                                                           *)

TooMany(held) == held > MAX_ACCUMULATED_COIN_STATES

Stuck(height) == \E h \in walk.cursor : height <= h

LastChange(s) == CHOOSE h \in s.created \cup s.spent : \A k \in s.created \cup s.spent : k <= h

\* The page a node answers with: by height, from the cursor on; none once its
\* chain has left the block the cursor names.
Pages(hash) ==
    IF reliable
    THEN {[states |-> {s \in Now(CoinsOf({hash})) :
                          LastChange(s) <= h /\ \A k \in walk.cursor : LastChange(s) > k},
           height |-> h, is_finished |-> h = tip] :
             h \in {k \in Height : k <= tip /\ ~ walk.broken /\ \A j \in walk.cursor : k > j \/ k = tip}}
    ELSE [states : Fabrications, height : Height, is_finished : BOOLEAN]

TakePage ==
    /\ read.stage = "page" /\ walk.pages < MAX_PUZZLE_STATE_PAGES
    /\ \E hash \in read.of : \E page \in Pages(hash) :
          LET held == walk.held + Cardinality(page.states)
          IN  /\ IF TooMany(held) \/ (~ page.is_finished /\ Stuck(page.height))
                 THEN Refuse
                 ELSE /\ found' = found \cup page.states
                      /\ Goes(IF page.is_finished THEN "peak" ELSE "page")
                      /\ UNCHANGED reply
              /\ walk' = [pages |-> walk.pages + 1, held |-> held, cursor |-> {page.height},
                          broken |-> FALSE]
    /\ UNCHANGED <<Idle, seen_peak, since, sure, lowered>>

TooManyPages ==
    /\ read.stage = "page" /\ walk.pages >= MAX_PUZZLE_STATE_PAGES
    /\ Refuse
    /\ UNCHANGED <<Idle, seen_peak, walk, since, sure, lowered>>

-----------------------------------------------------------------------------
Reads ==
    \/ ReadPeak \/ FromCache \/ Fetched \/ Fails \/ ReplyRecords
    \/ ReplyUnspent \/ AskForReveal \/ Revealed \/ TakePage \/ TooManyPages

Next ==
    \/ ChainMoves \/ ApplyFrame \/ Store \/ FedAnything
    \/ \E wish \in Wishes : Subscribe(wish.ids, wish.hashes)
    \/ \E wish \in Wishes : wish.ids # {} /\ Unsubscribe(wish.ids)
    \/ \E c \in Coin : BeginRead("record", c) \/ BeginRead("spend", c)
    \/ \E hash \in PuzzleHash : BeginRead("list", hash)
    \/ Reads

Spec == Init /\ [][Next]_vars

-----------------------------------------------------------------------------
(* Properties.                                                              *)

Done(kind, word) == read.stage = "done" /\ read.kind = kind /\ reply = word
Was(c, s) ==
    \E lives \in since :
        s = [coin |-> c, created |-> Clamped(lives[c].created, seen_peak),
                         spent |-> Clamped(lives[c].spent, seen_peak)]

\* A read over reliable nodes tells of its coin what was so on the chain at
\* some moment of the read, through any blocks, reorgs, spends and pages in
\* between: a coin reported absent or unspent was, a list leaves out no coin
\* that stood there unchanged, and no failure is told as an absence.  (Of a
\* coin that is cached and subscribed to, this is so if no frame was on its
\* way while the subscription was answered and stored.)
ReadsFollowTheChain ==
    sure =>
        /\ Done("record", "none") =>
              \A c \in read.of : \E lives \in since : lives[c].created = {}
        /\ Done("record", "some") => \A s \in found : Was(s.coin, s)
        /\ Done("spend", "none") =>
              \A c \in read.of : \E lives \in since : lives[c].spent = {}
        /\ Done("spend", "some") => \A s \in found : Was(s.coin, s) /\ s.spent # {}
        /\ Done("list", "some") =>
              /\ \A s \in found : Was(s.coin, s)
              /\ \A c \in CoinsOf(read.of) :
                    (\E life \in Life : life.created # {} /\ \A lives \in since : lives[c] = life)
                        => c \in CoinsIn(found)

\* A consumer that counts a record's depth from the peak it reads next does
\* not count below zero, unless a reorg lowered the peak since, or none was
\* known when the record was read: whatever heights the nodes claim.
HeightsStayCountable ==
    read.stage = "done" /\ read.kind \in {"record", "list"} /\ seen_peak # {} /\ ~ lowered =>
        \A s \in found : \A h \in s.created \cup s.spent, p \in peak : h <= p
=============================================================================
