--------------------- MODULE LightClientProviderProofs ---------------------
(***************************************************************************)
(* What holds of the chain source over the light client's cache for any    *)
(* nodes, reliable or not, and any number of coins, frames, pages and      *)
(* blocks.                                                                 *)
(*                                                                         *)
(* The provider moves the cache as CoinStateCacheProofs' AnyPeerSpec       *)
(* allows: a chain that reorganises and a node that makes up its messages  *)
(* are both peers that report of each coin at most one state.  For the     *)
(* heights it serves, the peak a read has seen must stay below the peak    *)
(* until a reorg lowers it, and what was found must be clamped to the      *)
(* former.                                                                 *)
(*                                                                         *)
(* That a read tells the chain over reliable nodes rests on the trail of   *)
(* frames: the frames on their way to the cache lead, one after the other, *)
(* from the chain it has been told of to the chain there is.  Every move   *)
(* of the chain lengthens the trail, every frame applied shortens it, and  *)
(* a coin that was subscribed to while all was quiet is cached as the      *)
(* trail's beginning has it.  What a read has found is then the life of    *)
(* its coin on one of the chains since it began, stage by stage.           *)
(***************************************************************************)
EXTENDS LightClientProvider, CoinStateCacheProofs, SequenceTheorems

Frame == [update : BOOLEAN, height : Height, fork : Height, items : Report]
Answered == [kind : {"track", "untrack"}, ids : SUBSET Coin, hashes : SUBSET PuzzleHash,
             quiet : BOOLEAN, answer : Report]

Stages == {"idle", "peak", "state", "page", "clamp", "spent", "reveal", "done"}

\* What is on its way to the cache, and what a read holds.
ProviderTypeOK ==
    /\ chain \in [Coin -> Life]
    /\ stream \in Seq(Frame)
    /\ job \subseteq Answered
    /\ found \subseteq CoinState
    /\ seen_peak \in Optional(Height)

\* The peak a read has seen is below the peak, until a reorg lowers it.
SeenIsBelow ==
    read.stage # "idle" /\ ~ lowered /\ seen_peak # {} =>
        peak # {} /\ \A p \in seen_peak, q \in peak : p <= q

\* A read stands where its kind may stand.
ReadInPlace ==
    /\ read \in [stage : Stages, kind : {"record", "spend", "list"}, of : SUBSET (Coin \cup PuzzleHash)]
    /\ read.stage = "state" => read.kind # "list"
    /\ read.stage \in {"spent", "reveal"} => read.kind = "spend"

\* What is served of a record or a list is not above the peak that was seen.
ServedIsClamped ==
    read.stage = "done" /\ read.kind \in {"record", "list"} =>
        \A s \in found : \A h \in s.created \cup s.spent, p \in seen_peak : h <= p

PInv == IInv /\ ProviderTypeOK /\ ReadInPlace /\ SeenIsBelow /\ ServedIsClamped

-----------------------------------------------------------------------------
(* What comes from a chain is well-formed.                                  *)

LEMMA OneHeightIsOptional ==
  ASSUME NEW heights \in Optional(Height), NEW fork
  PROVE  {h \in heights : h <= fork} \in Optional(Height)
BY DEF Optional

\* A branch of the chain gives every coin a life.
LEMMA BranchesAreLives ==
  ASSUME chain \in [Coin -> Life], NEW fork, NEW height \in Height, NEW touching
  PROVE  [c \in Coin |-> IF c \in touching THEN Touched(RolledBack(fork)[c], height)
                                           ELSE RolledBack(fork)[c]] \in [Coin -> Life]
<1>1. ASSUME NEW c \in Coin
      PROVE  RolledBack(fork)[c] \in Life
  BY OneHeightIsOptional DEF RolledBack, Life
<1>2. ASSUME NEW life \in Life
      PROVE  Touched(life, height) \in Life
  BY DEF Touched, Life, Optional
<1>. QED  BY <1>1, <1>2

\* What a chain says of some coins is a report.
LEMMA ChainsReport ==
  ASSUME NEW lives \in [Coin -> Life], NEW ids \in SUBSET Coin
  PROVE  {[coin |-> c, created |-> lives[c].created, spent |-> lives[c].spent] : c \in ids} \in Report
<1>1. \A c \in ids : lives[c].created \in Optional(Height) /\ lives[c].spent \in Optional(Height)
  BY DEF Life
<1>. QED  BY <1>1 DEF Report, CoinState, NamesCoinsOnce

LEMMA NowReports ==
  ASSUME chain \in [Coin -> Life], NEW ids
  PROVE  Now(ids) \in Report
<1>1. ids \cap Existing(chain) \in SUBSET Coin
  BY DEF Existing
<1>. QED  BY <1>1, ChainsReport DEF Now, StateOf

LEMMA FabricationsReport == Fabrications \subseteq Report
BY ProviderAssumption DEF Report

\* A clamped height is a height, and not above the peak.
LEMMA ClampedIsBelow ==
  ASSUME NEW heights \in Optional(Height), NEW peaks \in Optional(Height)
  PROVE  /\ Clamped(heights, peaks) \in Optional(Height)
         /\ \A h \in Clamped(heights, peaks), p \in peaks : h <= p
<1>1. CASE heights = {}
  BY <1>1 DEF Clamped, Optional
<1>2. ASSUME NEW h \in Height, heights = {h}, peaks = {}
      PROVE  Clamped(heights, peaks) = {h}
  BY <1>2 DEF Clamped
<1>3. ASSUME NEW h \in Height, heights = {h}, NEW p \in Height, peaks = {p}
      PROVE  /\ Clamped(heights, peaks) \in Optional(Height)
             /\ \A k \in Clamped(heights, peaks), q \in peaks : k <= q
  <2>1. h \in Nat /\ p \in Nat
    BY CacheAssumption
  <2>2. (CHOOSE q \in peaks : TRUE) = p
    BY <1>3
  <2>3. Clamped(heights, peaks) = {IF p < h THEN p ELSE h}
    BY <1>3, <2>2 DEF Clamped
  <2>. QED  BY <1>3, <2>1, <2>3 DEF Optional
<1>. QED  BY <1>1, <1>2, <1>3 DEF Optional

LEMMA ClampingKeepsStates ==
  ASSUME NEW states, states \subseteq CoinState, NEW peaks \in Optional(Height)
  PROVE  /\ ClampToPeak(states, peaks) \subseteq CoinState
         /\ \A s \in ClampToPeak(states, peaks) :
               \A h \in s.created \cup s.spent, p \in peaks : h <= p
<1>1. ASSUME NEW s \in states
      PROVE  LET t == [s EXCEPT !.created = Clamped(@, peaks), !.spent = Clamped(@, peaks)]
             IN  /\ t \in CoinState
                 /\ \A h \in t.created \cup t.spent, p \in peaks : h <= p
  <2>1. s \in CoinState /\ s.created \in Optional(Height) /\ s.spent \in Optional(Height)
    BY DEF CoinState
  <2>2. /\ Clamped(s.created, peaks) \in Optional(Height)
        /\ Clamped(s.spent, peaks) \in Optional(Height)
        /\ \A h \in Clamped(s.created, peaks) \cup Clamped(s.spent, peaks), p \in peaks : h <= p
    BY <2>1, ClampedIsBelow
  <2>. QED  BY <2>1, <2>2 DEF CoinState
<1>. QED  BY <1>1 DEF ClampToPeak

\* A peak, once known, stays known.
LEMMA PeaksStayKnown ==
  ASSUME peak # {}, [AnyReport]_cacheVars
  PROVE  peak' # {}
BY DEF AnyReport, SetPeak, ApplyUpdate, Track, Untrack, PeakAfter, cacheVars

-----------------------------------------------------------------------------
(* The cache under the provider.                                            *)

\* Every step of the provider is a step of the cache under some peer, or leaves
\* the cache as it is.
LEMMA ProviderMovesTheCache ==
  ASSUME ProviderTypeOK, [Next]_vars
  PROVE  [AnyReport]_cacheVars
<1>1. CASE ApplyFrame
  <2>. DEFINE frame == Head(stream)
  <2>1. frame \in Frame
    BY <1>1, HeadTailProperties DEF ApplyFrame, ProviderTypeOK
  <2>2. frame.items \in Report /\ frame.height \in Height /\ frame.fork \in Height
    BY <2>1 DEF Frame
  <2>3. \/ ApplyUpdate(frame.items, frame.height, frame.fork)
        \/ SetPeak(frame.height)
    BY <1>1 DEF ApplyFrame
  <2>. HIDE DEF frame
  <2>. QED  BY <2>2, <2>3 DEF AnyReport
<1>2. CASE Store
  <2>1. PICK j \in job : Track(j.ids, j.hashes, j.answer) \/ Untrack(j.ids)
    BY <1>2 DEF Store
  <2>2. j.ids \in SUBSET Coin /\ j.hashes \in SUBSET PuzzleHash /\ j.answer \in Report
    BY DEF ProviderTypeOK, Answered
  <2>. QED  BY <2>1, <2>2 DEF AnyReport
<1>3. CASE FedAnything
  <2>1. CASE CacheNext
    BY <2>1, MovesAreReports
  <2>2. CASE \E height \in Height :
                \/ SetPeak(height)
                \/ \E items \in Fabrications, fork \in Height : ApplyUpdate(items, height, fork)
    BY <2>2, FabricationsReport DEF AnyReport
  <2>. QED  BY <1>3, <2>1, <2>2 DEF FedAnything
<1>4. CASE ChainMoves
  BY <1>4 DEF ChainMoves
<1>5. ASSUME NEW ids, NEW hashes, Subscribe(ids, hashes) \/ Unsubscribe(ids)
      PROVE  UNCHANGED cacheVars
  BY <1>5 DEF Subscribe, Unsubscribe
<1>6. ASSUME NEW kind, NEW of, BeginRead(kind, of)
      PROVE  UNCHANGED cacheVars
  BY <1>6 DEF BeginRead, Idle
<1>7. CASE Reads
  BY <1>7 DEF Reads, ReadPeak, FromCache, Fetched, StateKnown, Fails, ReplyRecords, ReplyUnspent,
              AskForReveal, Revealed, TakePage, TooManyPages, Idle
<1>8. CASE UNCHANGED vars
  BY <1>8 DEF vars
<1>. QED  BY <1>1, <1>2, <1>3, <1>4, <1>5, <1>6, <1>7, <1>8 DEF Next

-----------------------------------------------------------------------------
(* Types: what comes from the chain, the peers and the cache are coin states. *)

\* A frame of the node reports each touched coin once.
LEMMA MovesStayTyped ==
  ASSUME ProviderTypeOK, ChainMoves
  PROVE  chain' \in [Coin -> Life] /\ stream' \in Seq(Frame)
<1>1. PICK fork, height \in Height, touching \in SUBSET Busy : MoveTo(fork, height, touching)
  BY DEF ChainMoves
<1>. DEFINE base == RolledBack(fork)
            moved == [c \in Coin |-> IF c \in touching THEN Touched(base[c], height) ELSE base[c]]
            told == {c \in armed : c \in touching \/ base[c] # chain[c]}
            items == {[coin |-> c, created |-> moved[c].created, spent |-> moved[c].spent] :
                         c \in told \cap Existing(moved)}
            frame == [update |-> told # {}, height |-> height, fork |-> fork, items |-> items]
<1>2. chain' = moved /\ stream' = Append(stream, frame)
  BY <1>1 DEF MoveTo
<1>3. moved \in [Coin -> Life]
  BY BranchesAreLives DEF ProviderTypeOK
<1>. HIDE DEF moved
<1>4. told \cap Existing(moved) \in SUBSET Coin
  BY DEF Existing
<1>. HIDE DEF told
<1>5. items \in Report
  BY <1>3, <1>4, ChainsReport
<1>. HIDE DEF items
<1>6. frame \in Frame
  BY <1>5 DEF Frame
<1>. HIDE DEF frame
<1>7. Append(stream, frame) \in Seq(Frame)
  BY <1>6, AppendProperties DEF ProviderTypeOK
<1>. QED  BY <1>2, <1>3, <1>7

\* A subscription is answered with what the chain says of some coins.
LEMMA AnswersStayTyped ==
  ASSUME ProviderTypeOK, NEW ids \in SUBSET Coin, NEW hashes \in SUBSET PuzzleHash,
         Subscribe(ids, hashes) \/ Unsubscribe(ids)
  PROVE  job' \subseteq Answered
<1>1. CASE Subscribe(ids, hashes)
  <2>1. Now(ids \cup CoinsOf(hashes)) \in Report
    BY NowReports DEF ProviderTypeOK
  <2>2. job' = {[kind |-> "track", ids |-> ids, hashes |-> hashes, quiet |-> stream = <<>>,
                 answer |-> Now(ids \cup CoinsOf(hashes))]}
    BY <1>1 DEF Subscribe
  <2>. QED  BY <2>1, <2>2 DEF Answered
<1>2. CASE Unsubscribe(ids)
  <2>1. {} \in Report
    BY DEF Report, NamesCoinsOnce
  <2>. QED  BY <1>2, <2>1 DEF Unsubscribe, Answered
<1>. QED  BY <1>1, <1>2

\* What a page holds are coin states, from a chain or made up.
LEMMA PagesHoldStates ==
  ASSUME ProviderTypeOK, NEW hash, NEW page \in Pages(hash)
  PROVE  page.states \subseteq CoinState
<1>1. CASE reliable
  <2>1. Now(CoinsOf({hash})) \subseteq CoinState
    BY NowReports DEF ProviderTypeOK, Report
  <2>2. page.states \subseteq Now(CoinsOf({hash}))
    BY <1>1 DEF Pages
  <2>. QED  BY <2>1, <2>2
<1>2. CASE ~ reliable
  BY <1>2, FabricationsReport DEF Pages, Report
<1>. QED  BY <1>1, <1>2

\* A read holds coin states: cached, fetched or paged, and clamped.
LEMMA ReadsStayTyped ==
  ASSUME CacheTypeOK, ProviderTypeOK, Reads
  PROVE  found' \subseteq CoinState /\ seen_peak' \in Optional(Height)
<1>1. /\ found \subseteq CoinState /\ coins \subseteq CoinState
      /\ peak \in Optional(Height) /\ seen_peak \in Optional(Height)
  BY DEF CacheTypeOK, ProviderTypeOK
<1>2. CASE ReadPeak
  BY <1>1, <1>2 DEF ReadPeak
<1>3. CASE FromCache
  BY <1>1, <1>3 DEF FromCache, CacheHit, StateKnown
<1>4. CASE Fetched
  <2>1. PICK c \in read.of :
           IF reliable THEN StateKnown(Now({c}), TRUE)
           ELSE \E states \in Fabrications : StateKnown({s \in states : s.coin = c}, TRUE)
    BY <1>4 DEF Fetched
  <2>2. Now({c}) \subseteq CoinState
    BY NowReports DEF ProviderTypeOK, Report
  <2>3. \A states \in Fabrications : {s \in states : s.coin = c} \subseteq CoinState
    BY FabricationsReport DEF Report
  <2>. QED  BY <1>1, <2>1, <2>2, <2>3 DEF StateKnown
<1>5. CASE ReplyRecords
  <2>1. ClampToPeak(found, seen_peak) \subseteq CoinState
    BY <1>1, ClampingKeepsStates
  <2>. QED  BY <1>1, <1>5, <2>1 DEF ReplyRecords, Reply
<1>6. CASE TakePage
  <2>1. PICK hash \in read.of : \E page \in Pages(hash) :
              found' = {} \/ found' = found \cup page.states
    BY <1>6 DEF TakePage, Refuse, Reply
  <2>2. PICK page \in Pages(hash) : found' = {} \/ found' = found \cup page.states
    BY <2>1
  <2>3. seen_peak' = seen_peak
    BY <1>6 DEF TakePage
  <2>. QED  BY <1>1, <2>2, <2>3, PagesHoldStates
<1>7. CASE Fails \/ ReplyUnspent \/ AskForReveal \/ Revealed \/ TooManyPages
  BY <1>1, <1>7 DEF Fails, ReplyUnspent, AskForReveal, Revealed, TooManyPages, Refuse, Reply
<1>. QED  BY <1>2, <1>3, <1>4, <1>5, <1>6, <1>7 DEF Reads

LEMMA ProviderStaysTyped ==
  ASSUME CacheTypeOK, ProviderTypeOK, [Next]_vars
  PROVE  ProviderTypeOK'
<1>. USE DEF ProviderTypeOK
<1>1. CASE ChainMoves
  <2>1. chain' \in [Coin -> Life] /\ stream' \in Seq(Frame)
    BY <1>1, MovesStayTyped
  <2>2. job' \subseteq Answered
    <3>1. job' = {[j EXCEPT !.quiet = FALSE] : j \in job}
      BY <1>1 DEF ChainMoves
    <3>2. \A j \in Answered : [j EXCEPT !.quiet = FALSE] \in Answered
      BY DEF Answered
    <3>. QED  BY <3>1, <3>2
  <2>3. UNCHANGED <<found, seen_peak>>
    BY <1>1 DEF ChainMoves
  <2>. QED  BY <2>1, <2>2, <2>3
<1>2. CASE ApplyFrame
  <2>1. stream' \in Seq(Frame)
    BY <1>2, HeadTailProperties DEF ApplyFrame
  <2>. QED  BY <1>2, <2>1 DEF ApplyFrame, nodeVars, readVars
<1>3. CASE Store \/ FedAnything
  BY <1>3 DEF Store, FedAnything, nodeVars, feedVars, readVars
<1>4. ASSUME NEW wish \in Wishes, Subscribe(wish.ids, wish.hashes) \/ Unsubscribe(wish.ids)
      PROVE  ProviderTypeOK'
  <2>1. wish.ids \in SUBSET Coin /\ wish.hashes \in SUBSET PuzzleHash
    BY ProviderAssumption
  <2>2. job' \subseteq Answered
    BY <1>4, <2>1, AnswersStayTyped
  <2>3. UNCHANGED <<chain, stream, found, seen_peak>>
    BY <1>4 DEF Subscribe, Unsubscribe, readVars
  <2>. QED  BY <2>2, <2>3
<1>5. ASSUME NEW kind, NEW of, BeginRead(kind, of)
      PROVE  ProviderTypeOK'
  BY <1>5 DEF BeginRead, Idle, nodeVars, feedVars, Optional
<1>6. CASE Reads
  <2>1. found' \subseteq CoinState /\ seen_peak' \in Optional(Height)
    BY <1>6, ReadsStayTyped
  <2>2. UNCHANGED <<chain, stream, job>>
    BY <1>6 DEF Reads, ReadPeak, FromCache, Fetched, StateKnown, Fails, ReplyRecords,
                ReplyUnspent, AskForReveal, Revealed, TakePage, TooManyPages, Idle, nodeVars, feedVars
  <2>. QED  BY <2>1, <2>2
<1>7. CASE UNCHANGED vars
  BY <1>7 DEF vars, nodeVars, feedVars, readVars
<1>. QED  BY <1>1, <1>2, <1>3, <1>4, <1>5, <1>6, <1>7 DEF Next

-----------------------------------------------------------------------------
(* The heights a read serves.                                               *)

\* A step that moves the cache is noted if it lowers the peak.
LEMMA SeenStaysBelow ==
  ASSUME IInv, IInv', ProviderTypeOK, SeenIsBelow, [Next]_vars
  PROVE  SeenIsBelow'
<1>1. /\ seen_peak \in Optional(Height) /\ peak \in Optional(Height) /\ peak' \in Optional(Height)
      /\ Height \subseteq Nat
  BY CacheAssumption DEF IInv, CacheTypeOK, ProviderTypeOK
<1>2. peak # {} => peak' # {}
  BY ProviderMovesTheCache, PeaksStayKnown
<1>3. ASSUME NotesPeak, UNCHANGED <<read, seen_peak>>
      PROVE  SeenIsBelow'
  <2>. SUFFICES ASSUME read.stage # "idle", ~ lowered', seen_peak # {}
                PROVE  peak' # {} /\ \A p \in seen_peak, q \in peak' : p <= q
    BY <1>3 DEF SeenIsBelow
  <2>1. ~ lowered /\ ~ PeakFalls
    BY <1>3 DEF NotesPeak
  <2>2. peak # {} /\ \A p \in seen_peak, q \in peak : p <= q
    BY <2>1 DEF SeenIsBelow
  <2>3. PICK q \in peak : q \in Nat
    BY <1>1, <2>2 DEF Optional
  <2>4. \A r \in peak' : r \in Nat /\ q <= r
    BY <1>1, <2>1, <2>3 DEF PeakFalls, Optional
  <2>5. \A p \in seen_peak : p \in Nat /\ p <= q
    BY <1>1, <2>2, <2>3 DEF Optional
  <2>. QED  BY <1>2, <2>2, <2>3, <2>4, <2>5
<1>4. ASSUME UNCHANGED <<seen_peak, peak, lowered>>,
             read'.stage # "idle" => read.stage # "idle"
      PROVE  SeenIsBelow'
  BY <1>4 DEF SeenIsBelow
<1>5. CASE ChainMoves
  BY <1>4, <1>5 DEF ChainMoves, cacheVars
<1>6. CASE ApplyFrame \/ FedAnything
  BY <1>3, <1>6 DEF ApplyFrame, FedAnything, readVars
<1>7. CASE Store
  <2>1. UNCHANGED <<seen_peak, peak, lowered, read>>
    BY <1>7 DEF Store, Track, Untrack, readVars
  <2>. QED  BY <1>4, <2>1
<1>8. ASSUME NEW ids, NEW hashes, Subscribe(ids, hashes) \/ Unsubscribe(ids)
      PROVE  SeenIsBelow'
  BY <1>4, <1>8 DEF Subscribe, Unsubscribe, readVars, cacheVars
<1>9. ASSUME NEW kind, NEW of, BeginRead(kind, of)
      PROVE  SeenIsBelow'
  BY <1>9 DEF BeginRead, SeenIsBelow
<1>10. CASE ReadPeak
  <2>1. seen_peak' = peak /\ peak' = peak
    BY <1>10 DEF ReadPeak, Idle, cacheVars
  <2>2. \A p \in peak, q \in peak : p <= q
    BY <1>1 DEF Optional
  <2>. QED  BY <2>1, <2>2 DEF SeenIsBelow
<1>11. CASE \/ FromCache \/ Fetched \/ Fails \/ ReplyRecords
            \/ ReplyUnspent \/ AskForReveal \/ Revealed \/ TakePage \/ TooManyPages
  <2>1. UNCHANGED <<seen_peak, peak, lowered>> /\ read.stage # "idle"
    BY <1>11 DEF FromCache, Fetched, StateKnown, Fails, ReplyRecords, ReplyUnspent, AskForReveal,
                 Revealed, TakePage, TooManyPages, Idle, cacheVars
  <2>. QED  BY <1>4, <2>1
<1>12. CASE UNCHANGED vars
  BY <1>4, <1>12 DEF vars, cacheVars, readVars
<1>. QED  BY <1>5, <1>6, <1>7, <1>8, <1>9, <1>10, <1>11, <1>12 DEF Next, Reads

\* Where a step of a read leads.
LEMMA ReadsGoOn ==
  ASSUME ReadInPlace, NEW stage, Goes(stage)
  PROVE  read'.stage = stage /\ read'.kind = read.kind /\ read'.of = read.of
BY DEF ReadInPlace, Goes

\* Reads do not change their kind, and stand where it may stand.
LEMMA ReadsStayInPlace ==
  ASSUME ReadInPlace, Reads
  PROVE  ReadInPlace'
<1>1. ASSUME NEW stage \in Stages, Goes(stage),
             stage = "state" => read.kind # "list",
             stage \in {"spent", "reveal"} => read.kind = "spend"
      PROVE  ReadInPlace'
  BY <1>1 DEF ReadInPlace, Goes
<1>. USE DEF Stages
<1>2. CASE ReadPeak
  BY <1>1, <1>2 DEF ReadPeak
<1>3. ASSUME NEW states, NEW certain, StateKnown(states, certain), read.stage = "state"
      PROVE  ReadInPlace'
  <2>1. CASE read.kind = "record"
    BY <1>1, <1>3, <2>1 DEF StateKnown
  <2>2. CASE read.kind # "record"
    BY <1>1, <1>3, <2>2 DEF StateKnown, ReadInPlace
  <2>. QED  BY <2>1, <2>2
<1>4. CASE FromCache \/ Fetched
  BY <1>3, <1>4 DEF FromCache, Fetched
<1>5. CASE AskForReveal
  BY <1>1, <1>5 DEF AskForReveal, ReadInPlace
<1>6. CASE TakePage
  BY <1>1, <1>6 DEF TakePage, Refuse, Reply
<1>7. CASE Fails \/ ReplyRecords \/ ReplyUnspent \/ Revealed \/ TooManyPages
  BY <1>1, <1>7 DEF Fails, ReplyRecords, ReplyUnspent, Revealed, TooManyPages, Refuse, Reply
<1>. QED  BY <1>2, <1>4, <1>5, <1>6, <1>7 DEF Reads

\* A read of a record or a list ends in a failure or in clamped states.
LEMMA ReadsServeClamped ==
  ASSUME ProviderTypeOK, ReadInPlace, Reads
  PROVE  ServedIsClamped'
<1>1. ASSUME found' = {}
      PROVE  ServedIsClamped'
  BY <1>1 DEF ServedIsClamped
<1>2. ASSUME NEW stage, Goes(stage), stage # "done"
      PROVE  ServedIsClamped'
  BY <1>2, ReadsGoOn DEF ServedIsClamped
<1>3. CASE ReadPeak \/ AskForReveal
  BY <1>2, <1>3 DEF ReadPeak, AskForReveal
<1>4. CASE FromCache \/ Fetched
  BY <1>2, <1>4 DEF FromCache, Fetched, StateKnown
<1>5. CASE Fails \/ ReplyUnspent \/ TooManyPages
  BY <1>1, <1>5 DEF Fails, ReplyUnspent, TooManyPages, Refuse, Reply
<1>6. CASE TakePage
  BY <1>1, <1>2, <1>6 DEF TakePage, Refuse, Reply
<1>7. CASE ReplyRecords
  <2>1. found' = ClampToPeak(found, seen_peak) /\ seen_peak' = seen_peak
    BY <1>7 DEF ReplyRecords, Reply
  <2>2. \A s \in ClampToPeak(found, seen_peak) :
           \A h \in s.created \cup s.spent, p \in seen_peak : h <= p
    BY ClampingKeepsStates DEF ProviderTypeOK
  <2>. QED  BY <2>1, <2>2 DEF ServedIsClamped
<1>8. CASE Revealed
  <2>1. read'.kind = read.kind /\ read.stage = "reveal"
    BY <1>8, ReadsGoOn DEF Revealed, Reply
  <2>2. read.kind = "spend"
    BY <2>1 DEF ReadInPlace
  <2>. QED  BY <2>1, <2>2 DEF ServedIsClamped
<1>. QED  BY <1>3, <1>4, <1>5, <1>6, <1>7, <1>8 DEF Reads

LEMMA ServedStaysClamped ==
  ASSUME ProviderTypeOK, ReadInPlace, ServedIsClamped, [Next]_vars
  PROVE  ReadInPlace' /\ ServedIsClamped'
<1>1. ASSUME UNCHANGED <<read, found, seen_peak>>
      PROVE  ReadInPlace' /\ ServedIsClamped'
  BY <1>1 DEF ReadInPlace, ServedIsClamped
<1>2. CASE ChainMoves
  BY <1>1, <1>2 DEF ChainMoves
<1>3. CASE ApplyFrame \/ FedAnything \/ Store
  BY <1>1, <1>3 DEF ApplyFrame, FedAnything, Store, readVars
<1>4. ASSUME NEW ids, NEW hashes, Subscribe(ids, hashes) \/ Unsubscribe(ids)
      PROVE  ReadInPlace' /\ ServedIsClamped'
  BY <1>1, <1>4 DEF Subscribe, Unsubscribe, readVars
<1>5. ASSUME NEW kind \in {"record", "spend", "list"}, NEW of \in Coin \cup PuzzleHash,
             BeginRead(kind, of)
      PROVE  ReadInPlace' /\ ServedIsClamped'
  <2>1. read' = [stage |-> IF kind = "record" THEN "peak" ELSE IF kind = "spend" THEN "state" ELSE "page",
                 kind |-> kind, of |-> {of}]
    BY <1>5 DEF BeginRead
  <2>2. /\ read'.stage \in {"peak", "state", "page"} /\ read'.kind = kind
        /\ read'.stage = "state" => kind = "spend"
    BY <2>1
  <2>3. ReadInPlace'
    BY <2>1, <2>2 DEF ReadInPlace, Stages
  <2>. QED  BY <2>2, <2>3 DEF ServedIsClamped
<1>6. CASE UNCHANGED vars
  BY <1>1, <1>6 DEF vars, readVars
<1>. QED
  BY <1>2, <1>3, <1>4, <1>5, <1>6, ReadsStayInPlace, ReadsServeClamped DEF Next

-----------------------------------------------------------------------------
(* The invariant, and what follows from it.                                 *)

\* The inductive invariant: the cache's own, coin states on every path to a
\* read, and no peak seen above the peak but for a reorg.
THEOREM ProviderInvariance == Spec => []PInv
<1>1. Init => PInv
  <2>. SUFFICES ASSUME Init PROVE PInv
    OBVIOUS
  <2>1. IInv
    BY DEF Init, CacheInit, IInv, CacheTypeOK, NoCoinAbovePeak, NamesCoinsOnce, Optional
  <2>2. chain \in [Coin -> Life]
    BY ProviderAssumption DEF Init, Life, Optional
  <2>3. ProviderTypeOK
    BY <2>2 DEF Init, ProviderTypeOK, Optional
  <2>4. ReadInPlace /\ SeenIsBelow /\ ServedIsClamped
    BY DEF Init, NoRead, ReadInPlace, SeenIsBelow, ServedIsClamped, Stages
  <2>. QED  BY <2>1, <2>3, <2>4 DEF PInv
<1>2. PInv /\ [Next]_vars => PInv'
  <2>. SUFFICES ASSUME PInv, [Next]_vars PROVE PInv'
    OBVIOUS
  <2>1. IInv'
    BY ProviderMovesTheCache, CacheStep DEF PInv
  <2>2. ProviderTypeOK'
    BY ProviderStaysTyped DEF PInv, IInv
  <2>3. SeenIsBelow'
    BY <2>1, SeenStaysBelow DEF PInv
  <2>4. ReadInPlace' /\ ServedIsClamped'
    BY ServedStaysClamped DEF PInv
  <2>. QED  BY <2>1, <2>2, <2>3, <2>4 DEF PInv
<1>. QED  BY <1>1, <1>2, PTL DEF Spec

\* Reliable nodes with their reorgs, unreliable ones with their inventions and
\* the calls of the provider are all peers the cache is proved against: what
\* CoinStateCacheProofs says of it holds here.
THEOREM ProviderFeedsTheCache == Spec => AnyPeerSpec
<1>1. Init => CacheInit
  BY DEF Init
<1>2. PInv /\ [Next]_vars => [AnyReport]_cacheVars
  BY ProviderMovesTheCache DEF PInv
<1>. QED  BY <1>1, <1>2, ProviderInvariance, PTL DEF Spec, AnyPeerSpec

\* Whatever heights nodes claim, and however frames, fetches and reads
\* interleave, the depth of a served record does not count below zero before a
\* reorg lowers the peak.
THEOREM ServedDepthsAreCountable == Spec => []HeightsStayCountable
<1>1. PInv => HeightsStayCountable
  <2>. SUFFICES ASSUME PInv, read.stage = "done", read.kind \in {"record", "list"},
                       seen_peak # {}, ~ lowered,
                       NEW s \in found, NEW h \in s.created \cup s.spent, NEW p \in peak
                PROVE  h <= p
    BY DEF HeightsStayCountable
  <2>1. PICK seen \in Height : seen_peak = {seen}
    BY DEF PInv, ProviderTypeOK, Optional
  <2>2. h <= seen
    BY <2>1 DEF PInv, ServedIsClamped
  <2>3. seen <= p
    BY <2>1 DEF PInv, SeenIsBelow
  <2>4. h \in Nat /\ seen \in Nat /\ p \in Nat
    <3>1. s \in CoinState /\ peak \in Optional(Height)
      BY DEF PInv, IInv, CacheTypeOK, ProviderTypeOK
    <3>. QED  BY <2>1, <3>1, CacheAssumption DEF CoinState, Optional
  <2>. QED  BY <2>2, <2>3, <2>4
<1>. QED  BY <1>1, ProviderInvariance, PTL

-----------------------------------------------------------------------------
(* What reaches the cache of a coin that is followed.                       *)

\* What is told of a coin with this life, and its life before a fork.
Told(c, life) == [coin |-> c, created |-> life.created, spent |-> life.spent]
Upto(life, fork) ==
    [created |-> {h \in life.created : h <= fork}, spent |-> {h \in life.spent : h <= fork}]

\* A coin exists before it is spent, and at most at the tip.
Sound(life, height) ==
    /\ life \in Life
    /\ life.created = {} => life.spent = {}
    /\ \A h \in life.created : h <= height /\ \A k \in life.spent : h <= k
    /\ \A h \in life.spent : h <= height

\* What a frame means for a coin: its new life, or that of its life which the
\* fork leaves.
Follows(frame, c, before, after) ==
    \/ frame.update /\ after.created # {} /\ Told(c, after) \in frame.items
    \/ /\ c \notin CoinsIn(frame.items)
       /\ after = Upto(before, frame.fork)
       /\ frame.update \/ after = before

\* The frames on their way lead from the chain the cache has been told of to
\* the node's.
Trail(past) ==
    /\ past \in [0 .. Len(stream) -> [Coin -> Life]]
    /\ past[Len(stream)] = chain
    /\ \A i \in 1 .. Len(stream), c \in settled :
          Follows(stream[i], c, past[i - 1][c], past[i][c])
    /\ \A i \in 1 .. Len(stream), c \in Coin : \A h \in past[i][c].created : h <= stream[i].height
    /\ \A s \in coins : s.coin \in settled \cap subscribed_coins =>
          past[0][s.coin].created # {} /\ s = Told(s.coin, past[0][s.coin])
    /\ sure /\ read.stage # "idle" => \A i \in 0 .. Len(stream) : past[i] \in since

\* The chain is sound, and the peak and the frames go up to its tip.
TipsInOrder ==
    /\ tip \in Nat /\ \A c \in Coin : Sound(chain[c], tip)
    /\ stream = <<>> => peak \subseteq {tip}
    /\ stream # <<>> => stream[Len(stream)].height = tip
    /\ \A i \in 1 .. Len(stream) :
          /\ \A p \in peak : p <= stream[i].height
          /\ \A j \in 1 .. i : stream[j].height <= stream[i].height
          /\ stream[i].height <= tip

\* A call that is on its way was answered by the chain, and while all has been
\* quiet it is still so.
CallsInOrder ==
    /\ armed \subseteq Coin /\ settled \subseteq armed
    /\ \A i, j \in job : i = j
    /\ \A j \in job :
          /\ j.kind = "track" => j.ids \subseteq armed
          /\ j.quiet => j.kind = "track" /\ stream = <<>>
                        /\ j.answer = Now(j.ids \cup CoinsOf(j.hashes))

\* A message that does not name a coin leaves what is known of it, and one that
\* does replaces it, if it can be stored.
LEMMA MessagesReplace ==
  ASSUME NEW kept, NEW states, NEW peaks, NEW capacity, NamesCoinsOnce(states),
         NEW after \in CacheCoins(kept, states, peaks, capacity), NEW s \in after
  PROVE  /\ s \in kept \/ s \in states
         /\ \A t \in states : t.coin = s.coin /\ Storable(t, peaks) => s = t
<1>. DEFINE taken == {t \in states : Storable(t, peaks)}
            known == {t \in taken : t.coin \in CoinsIn(kept)}
<1>1. PICK added \in Admissions(kept, taken \ known, capacity) :
              after = Overwrite(kept, known \cup added)
  BY DEF CacheCoins
<1>2. added \subseteq taken
  BY DEF Admissions
<1>3. s \in known \cup added \/ (s \in kept /\ s.coin \notin CoinsIn(known \cup added))
  BY <1>1 DEF Overwrite
<1>4. ASSUME NEW t \in states, t.coin = s.coin, Storable(t, peaks)
      PROVE  s = t
  <2>1. CASE s \in known \cup added
    BY <1>2, <1>4, <2>1 DEF NamesCoinsOnce
  <2>2. CASE s \in kept /\ s.coin \notin CoinsIn(known \cup added)
    <3>1. t \in known
      BY <1>4, <2>2 DEF CoinsIn
    <3>. QED  BY <1>4, <2>2, <3>1 DEF CoinsIn
  <2>. QED  BY <1>3, <2>1, <2>2
<1>. QED  BY <1>2, <1>3, <1>4

\* A reliable node's frame follows the life of every coin it is armed for.
LEMMA FramesFollow ==
  ASSUME chain \in [Coin -> Life], tip \in Nat, \A c \in Coin : Sound(chain[c], tip),
         armed \subseteq Coin,
         NEW fork \in Height, NEW height \in Height, NEW touching \in SUBSET Coin,
         fork <= tip, height > fork, height >= tip, MoveTo(fork, height, touching)
  PROVE  /\ tip' = height
         /\ chain' \in [Coin -> Life]
         /\ \A c \in Coin : Sound(chain'[c], height)
         /\ since' = IF read.stage = "idle" THEN since ELSE since \cup {chain'}
         /\ \E frame : /\ stream' = Append(stream, frame)
                       /\ frame.height = height
                       /\ \A c \in armed : Follows(frame, c, chain[c], chain'[c])
<1>. DEFINE base == RolledBack(fork)
            moved == [c \in Coin |-> IF c \in touching THEN Touched(base[c], height) ELSE base[c]]
            told == {c \in armed : c \in touching \/ base[c] # chain[c]}
            items == {[coin |-> c, created |-> moved[c].created, spent |-> moved[c].spent] :
                         c \in told \cap Existing(moved)}
            frame == [update |-> told # {}, height |-> height, fork |-> fork, items |-> items]
<1>1. /\ chain' = moved /\ tip' = height /\ stream' = Append(stream, frame)
      /\ since' = IF read.stage = "idle" THEN since ELSE since \cup {moved}
      /\ \A c \in touching : base[c].spent = {}
  BY DEF MoveTo
<1>2. fork \in Nat /\ height \in Nat /\ Height \subseteq Nat
  BY CacheAssumption
<1>3. moved \in [Coin -> Life]
  BY BranchesAreLives
<1>4. \A c \in Coin : base[c] = Upto(chain[c], fork)
  BY DEF RolledBack, Upto
<1>5. ASSUME NEW c \in Coin
      PROVE  /\ Sound(moved[c], height)
             /\ c \in touching => moved[c].created # {}
  <2>1. /\ chain[c].created \in Optional(Height) /\ chain[c].spent \in Optional(Height)
        /\ \A h \in chain[c].created \cup chain[c].spent : h \in Nat
    BY <1>2 DEF Life, Optional
  <2>2. /\ base[c].created = {h \in chain[c].created : h <= fork}
        /\ base[c].spent = {h \in chain[c].spent : h <= fork}
        /\ base[c] = [created |-> base[c].created, spent |-> base[c].spent]
    <3>1. base[c] = Upto(chain[c], fork)
      BY <1>4
    <3>. HIDE DEF base
    <3>. QED  BY <3>1 DEF Upto
  <2>3. base[c] \in Life
    <3>1. base[c].created \in Optional(Height) /\ base[c].spent \in Optional(Height)
      <4>. HIDE DEF base
      <4>1. /\ {h \in chain[c].created : h <= fork} \in Optional(Height)
            /\ {h \in chain[c].spent : h <= fork} \in Optional(Height)
        BY <2>1, OneHeightIsOptional
      <4>. QED  BY <2>2, <4>1
    <3>. HIDE DEF base
    <3>. QED  BY <2>2, <3>1 DEF Life
  <2>6. Sound(chain[c], tip)
    OBVIOUS
  <2>7. base[c].created = {} => base[c].spent = {}
    <3>. SUFFICES ASSUME NEW k \in chain[c].spent, k <= fork
                  PROVE  base[c].created # {}
      BY <2>2
    <3>1. PICK h \in chain[c].created : h <= k
      BY <2>6 DEF Sound
    <3>. QED  BY <1>2, <2>1, <2>2, <3>1
  <2>8. /\ Sound(base[c], height)
        /\ \A h \in base[c].created \cup base[c].spent : h \in Nat /\ h <= fork /\ h <= height
    BY <1>2, <2>1, <2>2, <2>3, <2>6, <2>7 DEF Sound
  <2>4. CASE c \notin touching
    BY <2>4, <2>8
  <2>5. CASE c \in touching
    <3>1. moved[c] = Touched(base[c], height) /\ base[c].spent = {} /\ moved[c] \in Life
      BY <1>1, <1>3, <2>5
    <3>2. moved[c].created # {}
      BY <2>3, <3>1 DEF Touched, Life
    <3>3. CASE base[c].created = {}
      BY <1>2, <2>3, <3>1, <3>3 DEF Touched, Sound, Life
    <3>4. CASE base[c].created # {}
      BY <1>2, <2>3, <2>8, <3>1, <3>4 DEF Touched, Sound, Life
    <3>. QED  BY <3>2, <3>3, <3>4
  <2>. QED  BY <2>4, <2>5
<1>6. ASSUME NEW c \in armed
      PROVE  Follows(frame, c, chain[c], moved[c])
  <2>1. frame.update = (told # {}) /\ frame.items = items /\ frame.fork = fork
    OBVIOUS
  <2>2. CASE c \in told /\ moved[c].created # {}
    BY <2>1, <2>2 DEF Follows, Told, Existing
  <2>3. c \in CoinsIn(items) => c \in told /\ moved[c].created # {}
    BY DEF CoinsIn, Existing
  <2>4. CASE c \in told /\ moved[c].created = {}
    <3>1. moved[c] = base[c]
      BY <1>5, <2>4
    <3>. QED  BY <1>4, <2>1, <2>3, <2>4, <3>1 DEF Follows
  <2>5. CASE c \notin told
    <3>1. moved[c] = base[c] /\ base[c] = chain[c]
      BY <2>5
    <3>. QED  BY <1>4, <2>1, <2>3, <2>5, <3>1 DEF Follows
  <2>. QED  BY <2>2, <2>4, <2>5
<1>7. frame.height = height
  OBVIOUS
<1>. HIDE DEF frame, moved
<1>. QED  BY <1>1, <1>3, <1>5, <1>6, <1>7

\* What a frame makes of the state of a coin that is followed.
LEMMA FramesAreFollowed ==
  ASSUME IInv, NEW frame \in Frame, NEW c \in subscribed_coins,
         NEW before \in Life, NEW after \in Life, Follows(frame, c, before, after),
         \A h \in after.created : h <= frame.height,
         \A p \in peak : p <= frame.height,
         \A s \in coins : s.coin = c => before.created # {} /\ s = Told(c, before),
         IF frame.update THEN ApplyUpdate(frame.items, frame.height, frame.fork)
                         ELSE SetPeak(frame.height),
         NEW s \in coins', s.coin = c
  PROVE  after.created # {} /\ s = Told(c, after)
<1>. DEFINE items == frame.items
            fork == frame.fork
            height == frame.height
<1>1. /\ fork \in Nat /\ height \in Nat /\ items \in Report /\ Height \subseteq Nat
      /\ NamesCoinsOnce(items) /\ coins \subseteq CoinState /\ peak \in Optional(Height)
  BY CacheAssumption DEF Frame, Report, IInv, CacheTypeOK
<1>2. \A lower : PeakAfter(height, lower) = {height}
  BY <1>1 DEF PeakAfter, PeakChanges
<1>3. CASE ~ frame.update
  <2>1. s \in coins
    BY <1>3 DEF SetPeak, CoinsAfter, Sweep
  <2>. QED  BY <1>3, <2>1 DEF Follows
<1>4. CASE frame.update
  <2>. DEFINE lower == IsGenuineReorg(items, height, fork)
              kept == CoinsAfter(Retained(items, fork), height, lower)
              states == {t \in items : IsSubscribed(t)}
  <2>1. coins' \in CacheCoins(kept, states, {height},
                              Capacity(subscribed_coins, subscribed_puzzle_hashes))
    BY <1>2, <1>4 DEF ApplyUpdate
  <2>2. NamesCoinsOnce(states)
    BY <1>1 DEF NamesCoinsOnce
  <2>. HIDE DEF states
  <2>3. /\ s \in kept \/ s \in states
        /\ \A t \in states : t.coin = c /\ Storable(t, {height}) => s = t
    BY <2>1, <2>2, MessagesReplace
  <2>4. CASE after.created # {} /\ Told(c, after) \in items
    <3>1. Told(c, after) \in states /\ Told(c, after).coin = c
      BY <2>4 DEF states, IsSubscribed, Told
    <3>2. Storable(Told(c, after), {height})
      BY DEF Storable, Told
    <3>. QED  BY <2>3, <2>4, <3>1, <3>2
  <2>5. CASE c \notin CoinsIn(items) /\ after = Upto(before, fork)
    <3>1. s \notin states
      BY <2>5 DEF states, CoinsIn
    <3>2. s \in Retained(items, fork)
      BY <2>3, <3>1 DEF CoinsAfter, Sweep
    <3>3. PICK t \in coins : /\ t.coin = c /\ t \notin Erased(items, fork)
                             /\ s = IF t \in Unspent(items, fork) THEN [t EXCEPT !.spent = {}] ELSE t
      <4>1. CASE s \in coins \ (Erased(items, fork) \cup Unspent(items, fork))
        BY <4>1
      <4>2. ASSUME NEW t \in Unspent(items, fork), s = [t EXCEPT !.spent = {}]
            PROVE  t \in coins /\ t.coin = c /\ t \notin Erased(items, fork)
        <5>1. t \in coins /\ t \notin Erased(items, fork)
          BY <4>2 DEF Unspent
        <5>2. s.coin = t.coin
          BY <1>1, <4>2, <5>1 DEF CoinState
        <5>. QED  BY <5>1, <5>2
      <4>. QED  BY <3>2, <4>1, <4>2 DEF Retained
    <3>4. before.created # {} /\ t = Told(c, before)
      BY <3>3
    <3>5. t.coin \notin Reasserted(items)
      BY <2>5, <3>3 DEF Reasserted, CoinsIn
    <3>6. \A h \in before.created : h \in Nat /\ h <= fork
      <4>1. \A h \in before.created : ~ (h > fork)
        BY <3>3, <3>4, <3>5 DEF Erased, Told
      <4>. QED  BY <1>1, <4>1 DEF Life, Optional
    <3>7. after.created = before.created
      BY <2>5, <3>6 DEF Upto
    <3>8. CASE t \in Unspent(items, fork)
      <4>1. \E h \in before.spent : h > fork
        BY <3>4, <3>8 DEF Unspent, Told
      <4>2. after.spent = {}
        BY <1>1, <2>5, <4>1 DEF Upto, Life, Optional
      <4>. QED  BY <3>3, <3>4, <3>7, <3>8, <4>2 DEF Told
    <3>9. CASE t \notin Unspent(items, fork)
      <4>1. \A h \in before.spent : ~ (h > fork)
        BY <3>3, <3>4, <3>5, <3>9 DEF Unspent, Told
      <4>2. after.spent = before.spent
        BY <1>1, <2>5, <4>1 DEF Upto, Life, Optional
      <4>. QED  BY <3>3, <3>4, <3>7, <3>9, <4>2 DEF Told
    <3>. QED  BY <3>8, <3>9
  <2>. QED  BY <2>4, <2>5 DEF Follows
<1>. QED  BY <1>3, <1>4

-----------------------------------------------------------------------------
(* The trail of frames.                                                     *)

LEMMA PeaksUpToTheTip ==
  ASSUME ProviderTypeOK, IInv, TipsInOrder
  PROVE  \A p \in peak : p \in Nat /\ p <= tip
<1>1. Height \subseteq Nat /\ peak \in Optional(Height) /\ tip \in Nat
  BY CacheAssumption DEF IInv, CacheTypeOK, TipsInOrder
<1>2. CASE stream = <<>>
  BY <1>1, <1>2 DEF TipsInOrder
<1>3. CASE stream # <<>>
  <2>1. Len(stream) \in 1 .. Len(stream)
    BY <1>3, EmptySeq, LenProperties DEF ProviderTypeOK
  <2>. QED  BY <1>1, <1>3, <2>1 DEF TipsInOrder, Optional
<1>. QED  BY <1>2, <1>3

LEMMA FramesHaveHeights ==
  ASSUME ProviderTypeOK
  PROVE  /\ Len(stream) \in Nat
         /\ \A i \in 1 .. Len(stream) : stream[i] \in Frame /\ stream[i].height \in Nat
<1>1. Height \subseteq Nat
  BY CacheAssumption
<1>2. \A i \in 1 .. Len(stream) : stream[i] \in Frame
  BY ElementOfSeq DEF ProviderTypeOK
<1>. QED  BY <1>1, <1>2, LenProperties DEF Frame, ProviderTypeOK

\* Frames and cache the same, or less of it followed.
LEMMA TrailsStay ==
  ASSUME NEW past, Trail(past),
         UNCHANGED <<stream, chain, coins>>,
         settled' \subseteq settled, subscribed_coins' \subseteq subscribed_coins,
         sure' /\ read'.stage # "idle" => sure /\ read.stage # "idle" /\ since' = since
  PROVE  Trail(past)'
BY DEF Trail

LEMMA TipsStay ==
  ASSUME TipsInOrder, UNCHANGED <<stream, chain, peak, tip>>
  PROVE  TipsInOrder'
BY DEF TipsInOrder

LEMMA MovesLeaveATrail ==
  ASSUME IInv, ProviderTypeOK, CallsInOrder, TipsInOrder, NEW past, Trail(past), ChainMoves
  PROVE  CallsInOrder' /\ TipsInOrder' /\ \E w : Trail(w)'
<1>1. PICK fork, height \in Height, touching \in SUBSET Busy :
              fork <= tip /\ height > fork /\ height >= tip /\ MoveTo(fork, height, touching)
  BY DEF ChainMoves
<1>2. /\ fork \in Nat /\ height \in Nat /\ tip \in Nat /\ touching \in SUBSET Coin
  BY CacheAssumption, ProviderAssumption DEF TipsInOrder
<1>3. /\ tip' = height
      /\ chain' \in [Coin -> Life]
      /\ \A c \in Coin : Sound(chain'[c], height)
      /\ since' = IF read.stage = "idle" THEN since ELSE since \cup {chain'}
      /\ \E frame : /\ stream' = Append(stream, frame)
                    /\ frame.height = height
                    /\ \A c \in armed : Follows(frame, c, chain[c], chain'[c])
  BY <1>1, <1>2, FramesFollow DEF ProviderTypeOK, TipsInOrder, CallsInOrder
<1>4. PICK frame : /\ stream' = Append(stream, frame)
                   /\ frame.height = height
                   /\ \A c \in armed : Follows(frame, c, chain[c], chain'[c])
  BY <1>3
<1>5. PICK n \in Nat : n = Len(stream)
  BY FramesHaveHeights
<1>6. /\ Len(stream') = n + 1 /\ stream'[n + 1] = frame
      /\ \A i \in 1 .. n : stream'[i] = stream[i]
      /\ stream' # <<>>
  <2>1. stream' \in Seq(Frame)
    BY MovesStayTyped
  <2>2. stream \in Seq(Frame \cup {frame}) /\ frame \in Frame \cup {frame}
    BY DEF ProviderTypeOK
  <2>. QED  BY <1>4, <1>5, <2>2, AppendProperties
<1>7. UNCHANGED <<coins, peak, subscribed_coins, armed, settled, read, sure>>
  BY DEF ChainMoves, cacheVars
<1>8. CallsInOrder'
  <2>1. job' = {[j EXCEPT !.quiet = FALSE] : j \in job}
    BY DEF ChainMoves
  <2>2. \A j \in job : LET k == [j EXCEPT !.quiet = FALSE]
                       IN  k.kind = j.kind /\ k.ids = j.ids /\ ~ k.quiet
    BY DEF ProviderTypeOK, Answered
  <2>3. \A k \in job' : ~ k.quiet /\ \E j \in job : k.kind = j.kind /\ k.ids = j.ids
    BY <2>1, <2>2
  <2>4. \A j, k \in job' : j = k
    BY <2>1 DEF CallsInOrder
  <2>. QED  BY <1>7, <2>3, <2>4 DEF CallsInOrder
<1>9. TipsInOrder'
  <2>1. \A p \in peak : p \in Nat /\ p <= height
    BY <1>1, <1>2, PeaksUpToTheTip
  <2>2. \A i \in 1 .. n : stream[i].height \in Nat /\ stream[i].height <= height
    BY <1>1, <1>2, <1>5, FramesHaveHeights DEF TipsInOrder
  <2>3. \A i \in 1 .. n : \A p \in peak : p <= stream[i].height
    BY <1>5 DEF TipsInOrder
  <2>4. \A i \in 1 .. n : \A j \in 1 .. i : stream[j].height <= stream[i].height
    BY <1>5 DEF TipsInOrder
  <2>5. ASSUME NEW i \in 1 .. n + 1
        PROVE  /\ \A p \in peak : p <= stream'[i].height
               /\ \A j \in 1 .. i : stream'[j].height <= stream'[i].height
               /\ stream'[i].height <= height
    <3>1. CASE i = n + 1
      <4>1. stream'[i].height = height
        BY <1>4, <1>6, <3>1
      <4>2. \A j \in 1 .. i : j \in 1 .. n \/ j = n + 1
        BY <3>1
      <4>. QED  BY <1>2, <1>4, <1>6, <2>1, <2>2, <4>1, <4>2
    <3>2. CASE i \in 1 .. n
      <4>1. \A j \in 1 .. i : j \in 1 .. n
        BY <3>2
      <4>. QED  BY <1>6, <2>2, <2>3, <2>4, <3>2, <4>1
    <3>. QED  BY <3>1, <3>2
  <2>. QED  BY <1>2, <1>3, <1>4, <1>6, <1>7, <2>5 DEF TipsInOrder
<1>10. PICK moved \in [Coin -> Life] : moved = chain'
  BY <1>3
<1>11. PICK w : w = [i \in 0 .. n + 1 |-> IF i = n + 1 THEN moved ELSE past[i]]
  OBVIOUS
<1>12. /\ w \in [0 .. n + 1 -> [Coin -> Life]] /\ w[n + 1] = moved
       /\ \A i \in 0 .. n : w[i] = past[i]
  BY <1>5, <1>11 DEF Trail
<1>13. ASSUME NEW i \in 1 .. n + 1
       PROVE  /\ \A c \in settled : Follows(stream'[i], c, w[i - 1][c], w[i][c])
              /\ \A c \in Coin : \A h \in w[i][c].created : h <= stream'[i].height
  <2>1. CASE i = n + 1
    <3>1. w[i] = moved /\ w[i - 1] = chain /\ stream'[i] = frame
      BY <1>5, <1>6, <1>12, <2>1 DEF Trail
    <3>2. settled \subseteq armed
      BY DEF CallsInOrder
    <3>. QED  BY <1>3, <1>4, <1>10, <3>1, <3>2 DEF Sound
  <2>2. CASE i \in 1 .. n
    <3>1. w[i] = past[i] /\ w[i - 1] = past[i - 1] /\ stream'[i] = stream[i]
      BY <1>6, <1>12, <2>2
    <3>. QED  BY <1>5, <2>2, <3>1 DEF Trail
  <2>. QED  BY <2>1, <2>2
<1>14. sure /\ read.stage # "idle" => \A i \in 0 .. n + 1 : w[i] \in since'
  <2>1. \A i \in 0 .. n + 1 : i = n + 1 \/ i \in 0 .. n
    OBVIOUS
  <2>. QED  BY <1>3, <1>5, <1>10, <1>12, <2>1 DEF Trail
<1>15. \A s \in coins : s.coin \in settled \cap subscribed_coins =>
          w[0][s.coin].created # {} /\ s = Told(s.coin, w[0][s.coin])
  BY <1>12 DEF Trail
<1>16. Trail(w)'
  BY <1>6, <1>7, <1>10, <1>12, <1>13, <1>14, <1>15 DEF Trail
<1>. QED  BY <1>8, <1>9, <1>16

LEMMA FramesFollowTheTrail ==
  ASSUME IInv, ProviderTypeOK, CallsInOrder, TipsInOrder, NEW past, Trail(past), ApplyFrame
  PROVE  CallsInOrder' /\ TipsInOrder' /\ \E w : Trail(w)'
<1>1. PICK n \in Nat : n + 1 = Len(stream)
  <2>1. Len(stream) \in Nat /\ Len(stream) # 0
    BY EmptySeq, LenProperties DEF ApplyFrame, ProviderTypeOK
  <2>. QED  BY <2>1
<1>2. PICK frame \in Frame : frame = stream[1]
  BY <1>1, FramesHaveHeights
<1>3. /\ stream' = Tail(stream) /\ frame = Head(stream)
      /\ Len(stream') = n /\ \A i \in 1 .. n : stream'[i] = stream[i + 1]
      /\ stream' = <<>> => n = 0
      /\ n = 0 => stream' = <<>>
  <2>1. stream' = Tail(stream) /\ stream # <<>> /\ stream \in Seq(Frame)
    BY DEF ApplyFrame, ProviderTypeOK
  <2>2. Len(Tail(stream)) = n /\ Tail(stream) \in Seq(Frame) /\ Head(stream) = stream[1]
        /\ \A i \in 1 .. n : Tail(stream)[i] = stream[i + 1]
    BY <1>1, <2>1, HeadTailProperties
  <2>. QED  BY <1>2, <2>1, <2>2, EmptySeq
<1>4. IF frame.update THEN ApplyUpdate(frame.items, frame.height, frame.fork)
                      ELSE SetPeak(frame.height)
  BY <1>3 DEF ApplyFrame
<1>5. UNCHANGED <<chain, tip, armed, job, settled, read, sure, since>>
  BY DEF ApplyFrame, nodeVars, readVars
<1>6. frame.height \in Nat /\ \A p \in peak : p <= frame.height
  BY <1>1, <1>2, FramesHaveHeights DEF TipsInOrder
<1>7. peak' = {frame.height} /\ subscribed_coins' \subseteq subscribed_coins
  BY <1>4, <1>6 DEF ApplyUpdate, SetPeak, PeakAfter, PeakChanges, subscribed
<1>8. CallsInOrder'
  <2>1. \A j \in job : ~ j.quiet
    BY DEF ApplyFrame, CallsInOrder
  <2>. QED  BY <1>5, <2>1 DEF CallsInOrder
<1>9. TipsInOrder'
  <2>1. \A i \in 1 .. n : i + 1 \in 1 .. n + 1 /\ 1 \in 1 .. i + 1
    OBVIOUS
  <2>2. n = 0 => frame.height = tip
    <3>1. stream # <<>> /\ stream[n + 1].height = tip
      BY <1>1 DEF TipsInOrder, ApplyFrame
    <3>. QED  BY <1>2, <3>1
  <2>3. n # 0 => stream'[n].height = tip
    BY <1>1, <1>3 DEF TipsInOrder, ApplyFrame
  <2>4. ASSUME NEW i \in 1 .. n
        PROVE  /\ frame.height <= stream'[i].height
               /\ \A j \in 1 .. i : stream'[j].height <= stream'[i].height
               /\ stream'[i].height <= tip
    <3>1. /\ i + 1 \in 1 .. Len(stream) /\ 1 \in 1 .. i + 1
          /\ \A j \in 1 .. i : j \in 1 .. n /\ j + 1 \in 1 .. i + 1
      BY <1>1
    <3>. QED  BY <1>2, <1>3, <3>1 DEF TipsInOrder
  <2>. QED  BY <1>3, <1>5, <1>7, <2>2, <2>3, <2>4 DEF TipsInOrder
<1>10. PICK w : w = [i \in 0 .. n |-> past[i + 1]]
  OBVIOUS
<1>11. w \in [0 .. n -> [Coin -> Life]] /\ \A i \in 0 .. n : w[i] = past[i + 1]
  <2>1. \A i \in 0 .. n : i + 1 \in 0 .. n + 1
    OBVIOUS
  <2>2. \A i \in 0 .. n : past[i + 1] \in [Coin -> Life]
    BY <1>1, <2>1 DEF Trail
  <2>. QED  BY <1>10, <2>2
<1>12. past[0] \in [Coin -> Life] /\ past[1] \in [Coin -> Life]
  BY <1>1 DEF Trail
<1>13. ASSUME NEW s \in coins', s.coin \in settled /\ s.coin \in subscribed_coins
       PROVE  w[0][s.coin].created # {} /\ s = Told(s.coin, w[0][s.coin])
  <2>. DEFINE c == s.coin
  <2>1. c \in Coin
    BY <1>13 DEF CallsInOrder
  <2>2. 1 \in 1 .. Len(stream)
    BY <1>1
  <2>3. Follows(frame, c, past[0][c], past[1][c]) /\ \A h \in past[1][c].created : h <= frame.height
    BY <1>2, <1>13, <2>1, <2>2 DEF Trail
  <2>4. \A t \in coins : t.coin = c => past[0][c].created # {} /\ t = Told(c, past[0][c])
    BY <1>13 DEF Trail
  <2>5. past[0][c] \in Life /\ past[1][c] \in Life
    BY <1>12, <2>1
  <2>6. past[1][c].created # {} /\ s = Told(c, past[1][c])
    BY <1>4, <1>6, <1>13, <2>3, <2>4, <2>5, FramesAreFollowed
  <2>. QED  BY <1>11, <2>6
<1>14. ASSUME NEW i \in 1 .. n
       PROVE  /\ \A c \in settled : Follows(stream'[i], c, w[i - 1][c], w[i][c])
              /\ \A c \in Coin : \A h \in w[i][c].created : h <= stream'[i].height
  <2>1. /\ i + 1 \in 1 .. Len(stream) /\ (i + 1) - 1 = i
        /\ w[i] = past[i + 1] /\ w[i - 1] = past[i] /\ stream'[i] = stream[i + 1]
    BY <1>1, <1>3, <1>11
  <2>. QED  BY <2>1 DEF Trail
<1>15. w[n] = chain /\ (sure /\ read.stage # "idle" => \A i \in 0 .. n : w[i] \in since)
  <2>1. \A i \in 0 .. n : w[i] = past[i + 1] /\ i + 1 \in 0 .. Len(stream)
    BY <1>1, <1>11
  <2>2. past[n + 1] = chain
    BY <1>1 DEF Trail
  <2>3. sure /\ read.stage # "idle" => \A i \in 0 .. Len(stream) : past[i] \in since
    BY DEF Trail
  <2>. QED  BY <2>1, <2>2, <2>3
<1>16. Trail(w)'
  BY <1>3, <1>5, <1>7, <1>11, <1>13, <1>14, <1>15 DEF Trail
<1>. QED  BY <1>8, <1>9, <1>16

\* A subscription stored while all is quiet is the chain's word on its coins;
\* one that is not leaves nothing to rely on.
LEMMA StoresKeepTheTrail ==
  ASSUME IInv, ProviderTypeOK, CallsInOrder, TipsInOrder, NEW past, Trail(past), Store
  PROVE  CallsInOrder' /\ TipsInOrder' /\ Trail(past)'
<1>1. PICK j \in job :
          /\ IF j.kind = "track" THEN Track(j.ids, j.hashes, j.answer) ELSE Untrack(j.ids)
          /\ settled' = IF j.quiet THEN (settled \cup j.ids) \ Contradicted(j)
                                   ELSE settled \ (j.ids \cup CoinsIn(j.answer))
  BY DEF Store
<1>2. job' = {} /\ UNCHANGED <<chain, tip, armed, stream, read, since, sure>>
  BY DEF Store, nodeVars, readVars
<1>3. /\ j.quiet \in BOOLEAN /\ j.ids \subseteq Coin /\ j.answer \subseteq CoinState
      /\ NamesCoinsOnce(j.answer)
  BY DEF ProviderTypeOK, Answered, Report
<1>4. peak' = peak
  BY <1>1 DEF Track, Untrack
<1>5. TipsInOrder'
  BY <1>2, <1>4, TipsStay
<1>6. CASE j.quiet
  <2>1. /\ j.kind = "track" /\ stream = <<>> /\ j.ids \subseteq armed
        /\ j.answer = Now(j.ids \cup CoinsOf(j.hashes))
    BY <1>6 DEF CallsInOrder
  <2>2. settled' \subseteq settled \cup j.ids
    BY <1>1, <1>6
  <2>3. past[0] = chain /\ Len(stream) = 0
    BY <2>1, EmptySeq DEF Trail
  <2>4. \A t \in j.answer : /\ t.coin \in Coin /\ chain[t.coin].created # {}
                            /\ t = Told(t.coin, chain[t.coin])
    BY <2>1 DEF Now, StateOf, Told, Existing
  <2>5. ASSUME NEW t \in j.answer
        PROVE  Storable(t, peak)
    <3>1. \A h \in t.created : h <= tip
      BY <2>4 DEF TipsInOrder, Sound, Told
    <3>. QED  BY <2>1, <3>1 DEF TipsInOrder, Storable
  <2>6. ASSUME NEW s \in coins', s.coin \in settled', s.coin \in subscribed_coins'
        PROVE  chain[s.coin].created # {} /\ s = Told(s.coin, chain[s.coin])
    <3>1. subscribed_coins' = subscribed_coins \cup j.ids
      BY <1>1, <2>1 DEF Track
    <3>2. /\ s \in coins \/ s \in j.answer
          /\ \A t \in j.answer : t.coin = s.coin /\ Storable(t, peak) => s = t
      <4>1. coins' \in CacheCoins(coins, j.answer, peak,
                                  Capacity(subscribed_coins', subscribed_puzzle_hashes'))
        BY <1>1, <2>1 DEF Track
      <4>. QED  BY <1>3, <2>6, <4>1, MessagesReplace
    <3>3. CASE s.coin \in CoinsIn(j.answer)
      BY <2>4, <2>5, <3>2, <3>3 DEF CoinsIn
    <3>4. CASE s.coin \notin CoinsIn(j.answer)
      <4>1. s \in coins
        BY <3>2, <3>4 DEF CoinsIn
      <4>2. s.coin \notin j.ids
        BY <1>1, <1>6, <2>6, <3>4, <4>1 DEF Contradicted, CoinsIn
      <4>3. s.coin \in settled /\ s.coin \in subscribed_coins
        BY <2>2, <2>6, <3>1, <4>2
      <4>. QED  BY <2>3, <4>1, <4>3 DEF Trail
    <3>. QED  BY <3>3, <3>4
  <2>7. Trail(past)'
    <3>1. \A i : i \notin 1 .. 0
      OBVIOUS
    <3>. QED  BY <1>2, <2>3, <2>6, <3>1 DEF Trail
  <2>8. CallsInOrder'
    BY <1>2, <2>1, <2>2 DEF CallsInOrder
  <2>. QED  BY <1>5, <2>7, <2>8
<1>7. CASE ~ j.quiet
  <2>1. settled' = settled \ (j.ids \cup CoinsIn(j.answer))
    BY <1>1, <1>7
  <2>2. ASSUME NEW s \in coins', s.coin \in settled', s.coin \in subscribed_coins'
        PROVE  s \in coins /\ s.coin \in settled /\ s.coin \in subscribed_coins
    <3>1. s.coin \notin j.ids /\ s \notin j.answer
      BY <2>1, <2>2 DEF CoinsIn
    <3>2. CASE j.kind = "track"
      <4>1. /\ subscribed_coins' = subscribed_coins \cup j.ids
            /\ coins' \in CacheCoins(coins, j.answer, peak,
                                     Capacity(subscribed_coins', subscribed_puzzle_hashes'))
        BY <1>1, <3>2 DEF Track
      <4>. QED  BY <1>3, <2>1, <2>2, <3>1, <4>1, MessagesReplace
    <3>3. CASE j.kind # "track"
      BY <1>1, <2>1, <2>2, <3>3 DEF Untrack
    <3>. QED  BY <3>2, <3>3
  <2>3. Trail(past)'
    BY <1>2, <2>1, <2>2 DEF Trail
  <2>4. CallsInOrder'
    BY <1>2, <2>1 DEF CallsInOrder
  <2>. QED  BY <1>5, <2>3, <2>4
<1>. QED  BY <1>3, <1>6, <1>7

LEMMA CallsKeepTheTrail ==
  ASSUME CallsInOrder, TipsInOrder, NEW past, Trail(past),
         NEW ids \in SUBSET Coin, NEW hashes, Subscribe(ids, hashes) \/ Unsubscribe(ids)
  PROVE  CallsInOrder' /\ TipsInOrder' /\ Trail(past)'
<1>1. UNCHANGED <<coins, peak, subscribed_coins, chain, tip, stream, read, since, sure>>
  BY DEF Subscribe, Unsubscribe, cacheVars, readVars
<1>2. settled' \subseteq settled /\ armed' \subseteq Coin /\ settled' \subseteq armed'
  BY DEF Subscribe, Unsubscribe, CallsInOrder, CoinsOf
<1>3. ASSUME NEW i \in job', NEW j \in job'
      PROVE  i = j
  <2>1. \E j1 : job' = {j1}
    BY DEF Subscribe, Unsubscribe
  <2>. QED  BY <1>3, <2>1
<1>4. ASSUME NEW j \in job'
      PROVE  /\ j.kind = "track" => j.ids \subseteq armed'
             /\ j.quiet => /\ j.kind = "track" /\ stream = <<>>
                           /\ j.answer = Now(j.ids \cup CoinsOf(j.hashes))
  <2>1. CASE Subscribe(ids, hashes)
    <3>1. j = [kind |-> "track", ids |-> ids, hashes |-> hashes, quiet |-> stream = <<>>,
               answer |-> Now(ids \cup CoinsOf(hashes))]
      BY <2>1 DEF Subscribe
    <3>2. /\ j.kind = "track" /\ j.ids = ids /\ j.quiet = (stream = <<>>)
          /\ j.answer = Now(j.ids \cup CoinsOf(j.hashes))
      BY <3>1
    <3>3. ids \subseteq armed'
      BY <2>1 DEF Subscribe
    <3>. QED  BY <3>2, <3>3
  <2>2. CASE Unsubscribe(ids)
    BY <2>2 DEF Unsubscribe
  <2>. QED  BY <2>1, <2>2
<1>5. \A some : Now(some)' = Now(some)
  BY <1>1 DEF Now, StateOf, Existing
<1>6. CallsInOrder'
  <2>1. ASSUME NEW j \in job'
        PROVE  (j.quiet => j.kind = "track" /\ stream = <<>>
                           /\ j.answer = Now(j.ids \cup CoinsOf(j.hashes)))'
    <3>1. Now(j.ids \cup CoinsOf(j.hashes))' = Now(j.ids \cup CoinsOf(j.hashes))
      BY <1>1 DEF Now, StateOf, Existing
    <3>. QED  BY <1>1, <1>4, <3>1
  <2>. QED  BY <1>2, <1>3, <1>4, <2>1 DEF CallsInOrder
<1>. QED  BY <1>1, <1>2, <1>6, TrailsStay, TipsStay

-----------------------------------------------------------------------------
(* What a read finds.                                                       *)

\* A life that is one on every chain since the read began.
Steady(c, life) == life \in Life /\ life.created # {} /\ \A lives \in since : lives[c] = life

\* What is found of one coin is its life on one of these chains.
OneFound(c) ==
    \E lives \in since :
        \/ found = {} /\ lives[c].created = {} /\ lives[c].spent = {}
        \/ found = {Told(c, lives[c])}

\* So is each state of a list, up to whose cursor no coin is left out.
ListFound(upto(_)) ==
    /\ \A s \in found : \E lives \in since : s = Told(s.coin, lives[s.coin])
    /\ \A c \in CoinsOf(read.of), life \in Life :
          Steady(c, life) /\ upto(life) => c \in CoinsIn(found)

BehindTheCursor(life) == \E h \in walk.cursor : LastChange(life) <= h
Anywhere(life) == TRUE

WalkIsARecord ==
    walk = [pages |-> walk.pages, held |-> walk.held, cursor |-> walk.cursor,
            broken |-> walk.broken]

\* Each stage of a read that is held to the chain.
StagesInOrder ==
    /\ chain \in since
    /\ \E x : read.of = {x}
    /\ read.kind \in {"record", "spend", "list"} /\ read.kind # "list" => read.of \subseteq Coin
    /\ WalkIsARecord
    /\ walk.cursor \subseteq Height
    /\ read.stage \in {"peak", "clamp"} => read.kind # "spend"
    /\ read.stage = "page" => read.kind = "list"
    /\ read.kind = "spend" => seen_peak = {}
    /\ read.kind # "list" /\ read.stage \in {"clamp", "spent", "reveal"} =>
          \A c \in read.of : OneFound(c)
    /\ read.stage = "reveal" => \A s \in found : s.spent # {}
    /\ read.stage = "page" => ListFound(BehindTheCursor)
    /\ read.kind = "list" /\ read.stage \in {"peak", "clamp"} => ListFound(Anywhere)

FoundInOrder == sure /\ read.stage # "idle" => StagesInOrder

FollowInv ==
    /\ sure => reliable
    /\ reliable => CallsInOrder /\ TipsInOrder /\ \E past : Trail(past)
    /\ FoundInOrder /\ ReadsFollowTheChain

\* More chains, and the same found.
LEMMA FoundStays ==
  ASSUME FoundInOrder, UNCHANGED <<read, seen_peak, found>>,
         sure' /\ read.stage # "idle" => sure /\ chain' \in since',
         since \subseteq since',
         walk' = [walk EXCEPT !.broken = walk'.broken]
  PROVE  FoundInOrder'
<1>. SUFFICES ASSUME sure', read.stage # "idle"
              PROVE  StagesInOrder'
  BY DEF FoundInOrder
<1>1. StagesInOrder /\ chain' \in since'
  BY DEF FoundInOrder
<1>2. /\ walk'.cursor = walk.cursor
      /\ WalkIsARecord'
  BY <1>1 DEF StagesInOrder, WalkIsARecord
<1>3. \A c : OneFound(c) => OneFound(c)'
  BY DEF OneFound
<1>4. \A c, life : Steady(c, life)' => Steady(c, life)
  BY DEF Steady
<1>5. ListFound(BehindTheCursor) => ListFound(BehindTheCursor)'
  BY <1>2, <1>4 DEF ListFound, BehindTheCursor
<1>6. ListFound(Anywhere) => ListFound(Anywhere)'
  BY <1>4 DEF ListFound, Anywhere
<1>. QED  BY <1>1, <1>2, <1>3, <1>5, <1>6 DEF StagesInOrder

-----------------------------------------------------------------------------
(* The reads.                                                               *)

\* Every life has a last change, once it has one.
LEMMA LastChangeIsLast ==
  ASSUME NEW life, life.created \in Optional(Height), life.spent \in Optional(Height),
         life.created # {}
  PROVE  /\ LastChange(life) \in life.created \cup life.spent
         /\ LastChange(life) \in Nat
<1>1. Height \subseteq Nat
  BY CacheAssumption
<1>2. PICK h \in Nat : life.created = {h}
  BY <1>1 DEF Optional
<1>3. CASE life.spent = {}
  <2>1. \E x \in life.created \cup life.spent : \A k \in life.created \cup life.spent : k <= x
    BY <1>2, <1>3
  <2>2. LastChange(life) \in life.created \cup life.spent
    BY <2>1 DEF LastChange
  <2>. QED  BY <1>2, <1>3, <2>2
<1>4. ASSUME NEW g \in Nat, life.spent = {g}
      PROVE  /\ LastChange(life) \in life.created \cup life.spent
             /\ LastChange(life) \in Nat
  <2>1. \E x \in life.created \cup life.spent : \A k \in life.created \cup life.spent : k <= x
    <3>1. CASE g <= h
      BY <1>2, <1>4, <3>1
    <3>2. CASE h <= g
      BY <1>2, <1>4, <3>2
    <3>. QED  BY <3>1, <3>2
  <2>2. LastChange(life) \in life.created \cup life.spent
    BY <2>1 DEF LastChange
  <2>. QED  BY <1>2, <1>4, <2>2
<1>. QED  BY <1>1, <1>3, <1>4 DEF Optional

\* A read that is held to the chain finds its coin in a cache that follows it,
\* or asks a node that has it.
LEMMA StatesAreFound ==
  ASSUME IInv, ProviderTypeOK, ReadInPlace, reliable, TipsInOrder, CallsInOrder,
         NEW past, Trail(past), StagesInOrder, sure', FromCache \/ Fetched
  PROVE  StagesInOrder'
<1>. DEFINE Found(c, states) ==
               /\ found' = states /\ sure
               /\ Goes(IF read.kind = "record" THEN "clamp" ELSE "spent")
               /\ \/ states = CacheHit(c) /\ CacheHit(c) # {} /\ c \in settled
                  \/ states = Now({c})
<1>0. PICK c \in read.of : \E states : Found(c, states)
  <2>1. CASE FromCache
    <3>1. PICK c \in read.of :
             /\ CacheHit(c) # {}
             /\ StateKnown(CacheHit(c), c \notin subscribed_coins \/ c \in settled)
      BY <2>1 DEF FromCache
    <3>2. c \in subscribed_coins
      BY <3>1 DEF CacheHit
    <3>3. Found(c, CacheHit(c))
      BY <3>1, <3>2 DEF StateKnown
    <3>. QED  BY <3>3
  <2>2. CASE Fetched
    <3>1. PICK c \in read.of : StateKnown(Now({c}), TRUE)
      BY <2>2 DEF Fetched
    <3>2. Found(c, Now({c}))
      BY <3>1 DEF StateKnown
    <3>. QED  BY <3>2
  <2>. QED  BY <2>1, <2>2
<1>1. PICK states : Found(c, states)
  BY <1>0
<1>2. read.stage = "state" /\ UNCHANGED <<chain, since, seen_peak, walk>>
  BY DEF StateKnown, FromCache, Fetched, Idle, nodeVars
<1>3. /\ read'.stage = IF read.kind = "record" THEN "clamp" ELSE "spent"
      /\ read'.kind = read.kind /\ read'.of = read.of
  BY <1>1, ReadsGoOn
<1>4. read.kind \in {"record", "spend"} /\ c \in Coin
  BY <1>2 DEF ReadInPlace, StagesInOrder
<1>5. OneFound(c)'
  <2>1. CASE states = CacheHit(c) /\ CacheHit(c) # {} /\ c \in settled
    <3>1. PICK s \in coins : s.coin = c /\ c \in subscribed_coins /\ states = {s}
      BY <2>1 DEF CacheHit, IInv, CacheTypeOK, NamesCoinsOnce
    <3>2. s = Told(c, past[0][c])
      BY <2>1, <3>1 DEF Trail
    <3>3. past[0] \in since
      BY <1>1, <1>2, FramesHaveHeights DEF Trail
    <3>. QED  BY <1>1, <1>2, <3>1, <3>2, <3>3 DEF OneFound
  <2>2. CASE states = Now({c})
    <3>1. CASE chain[c].created = {}
      <4>1. states = {} /\ chain[c].spent = {}
        BY <1>4, <2>2, <3>1 DEF Now, Existing, TipsInOrder, Sound
      <4>. QED  BY <1>1, <1>2, <3>1, <4>1 DEF OneFound, StagesInOrder
    <3>2. CASE chain[c].created # {}
      <4>1. states = {Told(c, chain[c])}
        BY <1>4, <2>2, <3>2 DEF Now, Existing, StateOf, Told
      <4>. QED  BY <1>1, <1>2, <4>1 DEF OneFound, StagesInOrder
    <3>. QED  BY <3>1, <3>2
  <2>. QED  BY <1>1, <2>1, <2>2
<1>6. \A d \in read.of : OneFound(d)'
  BY <1>5 DEF StagesInOrder
<1>. QED  BY <1>2, <1>3, <1>4, <1>6 DEF StagesInOrder, WalkIsARecord

\* A page takes in what stands unchanged between its cursor and the last.
LEMMA PagesLeaveOutNone ==
  ASSUME ProviderTypeOK, ReadInPlace, reliable, TipsInOrder, StagesInOrder, TakePage,
         read'.stage # "done"
  PROVE  StagesInOrder'
<1>1. PICK hash \in read.of : \E page \in Pages(hash) :
          /\ found' = found \cup page.states
          /\ Goes(IF page.is_finished THEN "peak" ELSE "page")
          /\ \E pages, held : walk' = [pages |-> pages, held |-> held, cursor |-> {page.height},
                                       broken |-> FALSE]
  <2>1. ASSUME Refuse
        PROVE  FALSE
    BY <2>1, ReadsGoOn DEF Refuse, Reply
  <2>. QED  BY <2>1 DEF TakePage
<1>2. PICK page \in Pages(hash) :
          /\ found' = found \cup page.states
          /\ Goes(IF page.is_finished THEN "peak" ELSE "page")
          /\ \E pages, held : walk' = [pages |-> pages, held |-> held, cursor |-> {page.height},
                                       broken |-> FALSE]
  BY <1>1
<1>3. PICK height \in Height :
          /\ page = [states |-> {s \in Now(CoinsOf({hash})) :
                        LastChange(s) <= height /\ \A k \in walk.cursor : LastChange(s) > k},
                     height |-> height, is_finished |-> height = tip]
  BY DEF Pages
<1>4. /\ page.states = {s \in Now(CoinsOf({hash})) :
                           LastChange(s) <= height /\ \A k \in walk.cursor : LastChange(s) > k}
      /\ page.height = height /\ page.is_finished = (height = tip)
  BY <1>3
<1>5. /\ UNCHANGED <<chain, since, seen_peak>>
      /\ read.stage = "page" /\ read.kind = "list"
  BY DEF TakePage, Idle, nodeVars, StagesInOrder
<1>6. /\ read'.stage = IF height = tip THEN "peak" ELSE "page"
      /\ read'.kind = "list" /\ read'.of = read.of
  BY <1>2, <1>4, <1>5, ReadsGoOn
<1>7. /\ walk'.cursor = {height}
      /\ WalkIsARecord'
  BY <1>2, <1>4 DEF WalkIsARecord
<1>8. read.of = {hash} /\ ListFound(BehindTheCursor) /\ chain \in since
  BY <1>5 DEF StagesInOrder
<1>9. \A s \in found' : \E lives \in since : s = Told(s.coin, lives[s.coin])
  <2>1. \A s \in page.states : s = Told(s.coin, chain[s.coin])
    BY <1>4 DEF Now, StateOf, Told
  <2>. QED  BY <1>2, <1>8, <2>1 DEF ListFound
<1>10. ASSUME NEW c \in CoinsOf(read.of), NEW life \in Life, Steady(c, life),
              LastChange(life) <= height
       PROVE  c \in CoinsIn(found')
  <2>1. LastChange(life) \in Nat /\ walk.cursor \subseteq Nat
    BY <1>10, LastChangeIsLast, CacheAssumption DEF Steady, StagesInOrder, Life
  <2>2. CASE \E k \in walk.cursor : LastChange(life) <= k
    <3>1. c \in CoinsIn(found)
      BY <1>8, <1>10, <2>2 DEF ListFound, BehindTheCursor
    <3>. QED  BY <1>2, <3>1 DEF CoinsIn
  <2>3. CASE \A k \in walk.cursor : LastChange(life) > k
    <3>1. c \in Coin /\ chain[c] = life /\ life.created # {}
      BY <1>8, <1>10 DEF Steady, CoinsOf
    <3>2. StateOf(c) \in Now(CoinsOf({hash}))
      BY <1>8, <1>10, <3>1 DEF Now, Existing
    <3>3. LastChange(StateOf(c)) = LastChange(life)
      BY <3>1 DEF LastChange, StateOf
    <3>4. StateOf(c) \in page.states
      BY <1>4, <1>10, <2>3, <3>2, <3>3
    <3>5. StateOf(c).coin = c
      BY DEF StateOf
    <3>. QED  BY <1>2, <3>4, <3>5 DEF CoinsIn
  <2>. QED  BY <2>1, <2>2, <2>3
<1>11. read'.stage = "page" => ListFound(BehindTheCursor)'
  BY <1>5, <1>6, <1>7, <1>9, <1>10 DEF ListFound, BehindTheCursor, Steady, CoinsOf
<1>12. read'.stage = "peak" => ListFound(Anywhere)'
  <2>. SUFFICES ASSUME height = tip, NEW c \in CoinsOf(read.of), NEW life \in Life, Steady(c, life)
                PROVE  c \in CoinsIn(found')
    BY <1>5, <1>6, <1>9 DEF ListFound, Steady, CoinsOf
  <2>1. c \in Coin /\ chain[c] = life /\ life.created # {}
    BY <1>8 DEF Steady, CoinsOf
  <2>2. LastChange(life) \in life.created \cup life.spent
    BY <2>1, LastChangeIsLast DEF Life
  <2>3. LastChange(life) <= tip
    BY <2>1, <2>2 DEF TipsInOrder, Sound
  <2>. QED  BY <1>10, <2>3
<1>13. walk'.cursor \subseteq Height
  BY <1>7
<1>. QED  BY <1>5, <1>6, <1>7, <1>8, <1>11, <1>12, <1>13 DEF StagesInOrder

\* Clamping changes heights only, and below a peak that was not read nothing.
LEMMA ClampedWas ==
  ASSUME NEW s \in CoinState, seen_peak \in Optional(Height),
         NEW lives \in since, s = Told(s.coin, lives[s.coin])
  PROVE  LET t == [s EXCEPT !.created = Clamped(@, seen_peak), !.spent = Clamped(@, seen_peak)]
         IN  t.coin = s.coin /\ Was(t.coin, t)
<1>. DEFINE t == [s EXCEPT !.created = Clamped(@, seen_peak), !.spent = Clamped(@, seen_peak)]
<1>1. s.created = lives[s.coin].created /\ s.spent = lives[s.coin].spent
  BY DEF Told
<1>2. /\ t \in CoinState /\ t.coin = s.coin
      /\ t.created = Clamped(s.created, seen_peak) /\ t.spent = Clamped(s.spent, seen_peak)
  <2>1. s.created \in Optional(Height) /\ s.spent \in Optional(Height)
    BY DEF CoinState
  <2>2. Clamped(s.created, seen_peak) \in Optional(Height) /\ Clamped(s.spent, seen_peak) \in Optional(Height)
    BY <2>1, ClampedIsBelow
  <2>. QED  BY <2>2 DEF CoinState
<1>. HIDE DEF t
<1>3. t = [coin |-> s.coin, created |-> Clamped(s.created, seen_peak),
           spent |-> Clamped(s.spent, seen_peak)]
  BY <1>2 DEF CoinState
<1>4. Was(s.coin, t)
  BY <1>1, <1>3 DEF Was
<1>. QED  BY <1>2, <1>4 DEF t

\* The end of a read that is held to the chain.
LEMMA EndsTellTheChain ==
  ASSUME ProviderTypeOK, ReadInPlace, StagesInOrder,
         \/ Fails \/ ReplyRecords \/ ReplyUnspent \/ Revealed \/ TooManyPages
         \/ TakePage /\ Refuse
  PROVE  StagesInOrder' /\ ReadsFollowTheChain'
<1>1. /\ UNCHANGED <<chain, since, seen_peak>>
      /\ WalkIsARecord'
      /\ walk'.cursor \subseteq Height
  <2>1. CASE TakePage
    <3>1. PICK hash \in read.of : \E page \in Pages(hash) :
             \E pages, held : walk' = [pages |-> pages, held |-> held, cursor |-> {page.height},
                                       broken |-> FALSE]
      BY <2>1 DEF TakePage
    <3>2. PICK page \in Pages(hash) :
             \E pages, held : walk' = [pages |-> pages, held |-> held, cursor |-> {page.height},
                                       broken |-> FALSE]
      BY <3>1
    <3>3. page.height \in Height
      BY DEF Pages
    <3>. QED  BY <2>1, <3>2, <3>3 DEF TakePage, Idle, nodeVars, WalkIsARecord
  <2>2. CASE Fails \/ ReplyRecords \/ ReplyUnspent \/ Revealed \/ TooManyPages
    BY <2>2 DEF Fails, ReplyRecords, ReplyUnspent, Revealed, TooManyPages, Idle, nodeVars,
                StagesInOrder, WalkIsARecord
  <2>. QED  BY <2>1, <2>2
<1>2. read'.stage = "done" /\ read'.kind = read.kind /\ read'.of = read.of
  BY ReadsGoOn DEF Fails, ReplyRecords, ReplyUnspent, Revealed, TooManyPages, Refuse, Reply
<1>3. StagesInOrder'
  BY <1>1, <1>2 DEF StagesInOrder
<1>4. ASSUME Refuse
      PROVE  ReadsFollowTheChain'
  BY <1>4 DEF Refuse, Reply, ReadsFollowTheChain, Done
<1>5. CASE ReplyUnspent
  <2>1. read.stage = "spent" /\ reply' = "none" /\ read.kind = "spend" /\ \A s \in found : s.spent = {}
    BY <1>5 DEF ReplyUnspent, Reply, ReadInPlace
  <2>2. \A c \in read.of : \E lives \in since : lives[c].spent = {}
    <3>. SUFFICES ASSUME NEW c \in read.of
                  PROVE  \E lives \in since : lives[c].spent = {}
      OBVIOUS
    <3>1. OneFound(c)
      BY <2>1 DEF StagesInOrder
    <3>2. PICK lives \in since : \/ found = {} /\ lives[c].spent = {}
                                 \/ found = {Told(c, lives[c])}
      BY <3>1 DEF OneFound
    <3>3. Told(c, lives[c]).spent = lives[c].spent
      BY DEF Told
    <3>. QED  BY <2>1, <3>2, <3>3
  <2>. QED  BY <1>1, <1>2, <1>3, <2>1, <2>2 DEF ReadsFollowTheChain, Done, Was
<1>6. CASE Revealed
  <2>1. /\ read.stage = "reveal" /\ reply' = "some" /\ found' = found /\ read.kind = "spend"
        /\ seen_peak = {} /\ \A s \in found : s.spent # {}
    BY <1>6 DEF Revealed, Reply, ReadInPlace, StagesInOrder
  <2>2. ASSUME NEW s \in found
        PROVE  Was(s.coin, s)
    <3>1. PICK c \in read.of : OneFound(c)
      BY <2>1 DEF StagesInOrder
    <3>2. PICK lives \in since : s = Told(c, lives[c])
      BY <3>1 DEF OneFound
    <3>3. \A heights : Clamped(heights, {}) = heights
      BY DEF Clamped
    <3>4. s.coin = c /\ Was(c, s)
      BY <2>1, <3>2, <3>3 DEF Was, Told
    <3>. QED  BY <3>4
  <2>. QED  BY <1>1, <1>2, <1>3, <2>1, <2>2 DEF ReadsFollowTheChain, Done, Was
<1>7. CASE ReplyRecords
  <2>1. /\ read.stage = "clamp" /\ read.kind \in {"record", "list"}
        /\ found' = ClampToPeak(found, seen_peak)
        /\ reply' = IF read.kind = "record" /\ found = {} THEN "none" ELSE "some"
    BY <1>7 DEF ReplyRecords, Reply, ReadInPlace, StagesInOrder
  <2>2. \A s \in found : \E lives \in since : s = Told(s.coin, lives[s.coin])
    <3>1. CASE read.kind = "list"
      BY <2>1, <3>1 DEF StagesInOrder, ListFound
    <3>2. CASE read.kind = "record"
      <4>1. PICK c \in read.of : OneFound(c)
        BY <2>1, <3>2 DEF StagesInOrder
      <4>. QED  BY <4>1 DEF OneFound, Told
    <3>. QED  BY <2>1, <3>1, <3>2
  <2>3. \A t \in found' : Was(t.coin, t)
    <3>. SUFFICES ASSUME NEW s \in found
                  PROVE  LET t == [s EXCEPT !.created = Clamped(@, seen_peak),
                                            !.spent = Clamped(@, seen_peak)]
                         IN  Was(t.coin, t)
      BY <2>1 DEF ClampToPeak
    <3>1. /\ s \in CoinState /\ seen_peak \in Optional(Height)
          /\ \E lives \in since : s = Told(s.coin, lives[s.coin])
      BY <2>2 DEF ProviderTypeOK
    <3>. QED  BY <3>1, ClampedWas
  <2>4. CASE read.kind = "list"
    <3>1. CoinsIn(found)' = CoinsIn(found)
      <4>1. \A s \in found : [s EXCEPT !.created = Clamped(@, seen_peak),
                                       !.spent = Clamped(@, seen_peak)].coin = s.coin
        BY DEF ProviderTypeOK, CoinState
      <4>. QED  BY <2>1, <4>1 DEF ClampToPeak, CoinsIn
    <3>2. ListFound(Anywhere)
      BY <2>1, <2>4 DEF StagesInOrder
    <3>3. \A c \in CoinsOf(read.of) :
             (\E life \in Life : life.created # {} /\ \A lives \in since : lives[c] = life)
                 => c \in CoinsIn(found)'
      BY <3>1, <3>2 DEF ListFound, Anywhere, Steady
    <3>4. CoinsOf(read.of)' = CoinsOf(read.of)
      BY <1>2 DEF CoinsOf
    <3>5. reply' = "some" /\ read'.kind = "list"
      BY <1>2, <2>1, <2>4
    <3>. QED  BY <1>1, <1>3, <2>3, <3>3, <3>4, <3>5 DEF ReadsFollowTheChain, Done, Was
  <2>5. CASE read.kind = "record"
    <3>1. found = {} => \A c \in read.of : \E lives \in since : lives[c].created = {}
      BY <2>1, <2>5 DEF StagesInOrder, OneFound
    <3>2. read'.kind = "record" /\ read'.of = read.of /\ (reply' = "none" => found = {})
      BY <1>2, <2>1, <2>5
    <3>. QED  BY <1>1, <1>3, <2>3, <3>1, <3>2 DEF ReadsFollowTheChain, Done, Was
  <2>. QED  BY <2>1, <2>4, <2>5
<1>. QED  BY <1>3, <1>4, <1>5, <1>6, <1>7 DEF Fails, TooManyPages

\* A read changes nothing but itself, and stays held to the chain or is let go.
LEMMA ReadsOnlyRead ==
  ASSUME Reads
  PROVE  /\ UNCHANGED <<cacheVars, nodeVars, feedVars, since>>
         /\ sure' => sure
         /\ read.stage # "idle"
<1>1. CASE FromCache \/ Fetched
  <2>1. UNCHANGED <<cacheVars, nodeVars, feedVars, since>> /\ read.stage # "idle"
    BY <1>1 DEF FromCache, Fetched, StateKnown, Idle
  <2>2. ASSUME NEW states, NEW certain, StateKnown(states, certain)
        PROVE  sure' => sure
    BY <2>2 DEF StateKnown
  <2>. QED  BY <1>1, <2>1, <2>2 DEF FromCache, Fetched
<1>2. CASE \/ ReadPeak \/ Fails \/ ReplyRecords \/ ReplyUnspent
           \/ AskForReveal \/ Revealed \/ TakePage \/ TooManyPages
  BY <1>2 DEF ReadPeak, Fails, ReplyRecords, ReplyUnspent, AskForReveal, Revealed, TakePage,
              TooManyPages, Idle
<1>. QED  BY <1>1, <1>2 DEF Reads

\* Between a read's beginning and its end.
LEMMA ReadsStayInOrder ==
  ASSUME IInv, ProviderTypeOK, ReadInPlace, FollowInv, sure', Reads
  PROVE  StagesInOrder' /\ ReadsFollowTheChain'
<1>1. sure /\ read.stage # "idle"
  BY ReadsOnlyRead
<1>2. StagesInOrder /\ reliable /\ CallsInOrder /\ TipsInOrder /\ \E past : Trail(past)
  BY <1>1 DEF FollowInv, FoundInOrder
<1>3. ASSUME read'.stage # "done"
      PROVE  ReadsFollowTheChain'
  BY <1>3 DEF ReadsFollowTheChain, Done
<1>4. CASE ReadPeak
  <2>1. /\ read.stage = "peak" /\ read.kind # "spend"
        /\ UNCHANGED <<chain, since, walk, found>>
    BY <1>2, <1>4 DEF ReadPeak, Idle, nodeVars, StagesInOrder
  <2>2. /\ read'.stage = IF read.kind = "record" THEN "state" ELSE "clamp"
        /\ read'.kind = read.kind /\ read'.of = read.of
    BY <1>4, ReadsGoOn DEF ReadPeak
  <2>3. read.kind \in {"record", "list"}
    BY <2>1 DEF ReadInPlace
  <2>4. ListFound(Anywhere) => ListFound(Anywhere)'
    BY <2>1, <2>2 DEF ListFound, Anywhere, Steady, CoinsOf
  <2>. QED  BY <1>2, <1>3, <2>1, <2>2, <2>3, <2>4 DEF StagesInOrder, WalkIsARecord
<1>5. CASE FromCache \/ Fetched
  <2>1. StagesInOrder'
    BY <1>2, <1>5, StatesAreFound
  <2>2. read'.stage # "done"
    <3>1. Goes(IF read.kind = "record" THEN "clamp" ELSE "spent")
      BY <1>5 DEF FromCache, Fetched, StateKnown
    <3>2. read'.stage = IF read.kind = "record" THEN "clamp" ELSE "spent"
      BY <3>1, ReadsGoOn
    <3>. QED  BY <3>2
  <2>. QED  BY <1>3, <2>1, <2>2
<1>6. CASE AskForReveal
  <2>1. /\ read.stage = "spent" /\ read.kind = "spend" /\ \E s \in found : s.spent # {}
        /\ UNCHANGED <<chain, since, walk, found, seen_peak>>
    BY <1>6 DEF AskForReveal, Idle, nodeVars, ReadInPlace
  <2>2. read'.stage = "reveal" /\ read'.kind = read.kind /\ read'.of = read.of
    BY <1>6, ReadsGoOn DEF AskForReveal
  <2>3. \A c \in read.of : OneFound(c) /\ OneFound(c)'
    BY <1>2, <2>1 DEF StagesInOrder, OneFound
  <2>4. \A s \in found : s.spent # {}
    <3>1. \A s, t \in found : s = t
      BY <1>2, <2>3 DEF OneFound, StagesInOrder
    <3>. QED  BY <2>1, <3>1
  <2>. QED  BY <1>2, <1>3, <2>1, <2>2, <2>3, <2>4 DEF StagesInOrder, WalkIsARecord
<1>7. CASE TakePage
  <2>1. Refuse \/ Goes("peak") \/ Goes("page")
    BY <1>7 DEF TakePage
  <2>2. CASE Refuse
    BY <1>2, <1>7, <2>2, EndsTellTheChain
  <2>3. CASE Goes("peak") \/ Goes("page")
    <3>1. read'.stage # "done"
      BY <2>3, ReadsGoOn
    <3>. QED  BY <1>2, <1>3, <1>7, <3>1, PagesLeaveOutNone
  <2>. QED  BY <2>1, <2>2, <2>3
<1>8. CASE Fails \/ ReplyRecords \/ ReplyUnspent \/ Revealed \/ TooManyPages
  BY <1>2, <1>8, EndsTellTheChain
<1>. QED  BY <1>4, <1>5, <1>6, <1>7, <1>8 DEF Reads

\* A read that begins when no frame is on its way is held to the chain.
LEMMA ReadsBeginInOrder ==
  ASSUME ProviderTypeOK, CallsInOrder, TipsInOrder, NEW past, Trail(past),
         NEW kind \in {"record", "spend", "list"}, NEW of, kind # "list" => of \in Coin,
         BeginRead(kind, of)
  PROVE  CallsInOrder' /\ TipsInOrder' /\ Trail(past)' /\ FoundInOrder' /\ ReadsFollowTheChain'
<1>1. /\ UNCHANGED <<coins, peak, subscribed_coins, chain, tip, armed, stream, job, settled>>
      /\ since' = {chain} /\ (sure' => stream = <<>>) /\ found' = {} /\ seen_peak' = {} /\ walk' = NoWalk
  BY DEF BeginRead, Idle, cacheVars, nodeVars, feedVars
<1>2. read' = [stage |-> IF kind = "record" THEN "peak" ELSE IF kind = "spend" THEN "state" ELSE "page",
               kind |-> kind, of |-> {of}]
  BY DEF BeginRead
<1>3. /\ read'.stage = IF kind = "record" THEN "peak" ELSE IF kind = "spend" THEN "state" ELSE "page"
      /\ read'.kind = kind /\ read'.of = {of}
  BY <1>2
<1>4. CallsInOrder'
  BY <1>1 DEF CallsInOrder, Now, StateOf, Existing
<1>5. TipsInOrder'
  BY <1>1, TipsStay
<1>6. Trail(past)'
  <2>1. sure' => \A i \in 0 .. Len(stream) : past[i] \in since'
    <3>. SUFFICES ASSUME stream = <<>>
                  PROVE  \A i \in 0 .. Len(stream) : past[i] = chain
      BY <1>1
    <3>1. Len(stream) = 0
      BY EmptySeq
    <3>. QED  BY <3>1 DEF Trail
  <2>. QED  BY <1>1, <2>1 DEF Trail
<1>7. StagesInOrder'
  BY <1>1, <1>3 DEF StagesInOrder, NoWalk, WalkIsARecord, ListFound, BehindTheCursor
<1>8. ReadsFollowTheChain'
  BY <1>3 DEF ReadsFollowTheChain, Done
<1>. QED  BY <1>4, <1>5, <1>6, <1>7, <1>8 DEF FoundInOrder

LEMMA ReadsKeepTheTrail ==
  ASSUME CallsInOrder, TipsInOrder, NEW past, Trail(past), Reads
  PROVE  CallsInOrder' /\ TipsInOrder' /\ Trail(past)'
<1>1. /\ UNCHANGED <<coins, peak, subscribed_coins, chain, tip, armed, stream, job, settled, since>>
      /\ sure' => sure
      /\ read.stage # "idle"
  BY ReadsOnlyRead DEF cacheVars, nodeVars, feedVars
<1>2. CallsInOrder'
  BY <1>1 DEF CallsInOrder, Now, StateOf, Existing
<1>. QED  BY <1>1, <1>2, TipsStay, TrailsStay

-----------------------------------------------------------------------------
LEMMA TheChainIsFollowed ==
  ASSUME PInv, FollowInv, [Next]_vars
  PROVE  FollowInv'
<1>. USE DEF PInv
<1>1. ASSUME NEW kind \in {"record", "spend", "list"}, NEW of, kind # "list" => of \in Coin,
             BeginRead(kind, of)
      PROVE  FollowInv'
  <2>1. reliable' = reliable /\ (sure' => reliable)
    BY <1>1 DEF BeginRead, Idle, nodeVars
  <2>2. CASE reliable
    <3>1. PICK past : Trail(past)
      BY <2>2 DEF FollowInv
    <3>2. CallsInOrder' /\ TipsInOrder' /\ Trail(past)' /\ FoundInOrder' /\ ReadsFollowTheChain'
      BY <1>1, <2>2, <3>1, ReadsBeginInOrder DEF FollowInv
    <3>. QED  BY <2>1, <3>2 DEF FollowInv
  <2>3. CASE ~ reliable
    BY <2>1, <2>3 DEF FollowInv, FoundInOrder, ReadsFollowTheChain
  <2>. QED  BY <2>2, <2>3
<1>2. CASE Reads
  <2>1. reliable' = reliable /\ (sure' => sure)
    BY <1>2, ReadsOnlyRead DEF nodeVars
  <2>2. CASE reliable
    <3>1. PICK past : Trail(past)
      BY <2>2 DEF FollowInv
    <3>2. CallsInOrder' /\ TipsInOrder' /\ Trail(past)'
      BY <1>2, <2>2, <3>1, ReadsKeepTheTrail DEF FollowInv
    <3>3. FoundInOrder' /\ ReadsFollowTheChain'
      BY <1>2, ReadsStayInOrder DEF FoundInOrder, ReadsFollowTheChain
    <3>. QED  BY <2>1, <2>2, <3>2, <3>3 DEF FollowInv
  <2>3. CASE ~ reliable
    BY <2>1, <2>3 DEF FollowInv, FoundInOrder, ReadsFollowTheChain
  <2>. QED  BY <2>2, <2>3
<1>3. ASSUME UNCHANGED <<reliable, read, seen_peak, found, reply, sure>>,
             sure /\ read.stage # "idle" => chain' \in since',
             since \subseteq since', read.stage = "done" => since' = since,
             sure /\ read.stage # "idle" => walk' = [walk EXCEPT !.broken = walk'.broken],
             reliable => CallsInOrder' /\ TipsInOrder' /\ \E past : Trail(past)'
      PROVE  FollowInv'
  <2>1. FoundInOrder'
    <3>1. CASE sure /\ read.stage # "idle"
      BY <1>3, <3>1, FoundStays DEF FollowInv
    <3>2. CASE ~ (sure /\ read.stage # "idle")
      BY <1>3, <3>2 DEF FoundInOrder
    <3>. QED  BY <3>1, <3>2
  <2>2. ReadsFollowTheChain'
    <3>1. CASE read.stage = "done"
      BY <1>3, <3>1 DEF FollowInv, ReadsFollowTheChain, Done, Was
    <3>2. CASE read.stage # "done"
      BY <1>3, <3>2 DEF ReadsFollowTheChain, Done
    <3>. QED  BY <3>1, <3>2
  <2>. QED  BY <1>3, <2>1, <2>2 DEF FollowInv
<1>4. sure /\ read.stage # "idle" =>
         /\ chain \in since
         /\ WalkIsARecord
  BY DEF FollowInv, FoundInOrder, StagesInOrder
<1>5. ASSUME UNCHANGED <<reliable, chain, readVars>>,
             reliable => CallsInOrder' /\ TipsInOrder' /\ \E past : Trail(past)'
      PROVE  FollowInv'
  <2>1. sure /\ read.stage # "idle" => walk' = [walk EXCEPT !.broken = walk'.broken]
    BY <1>4, <1>5 DEF readVars, WalkIsARecord
  <2>. QED  BY <1>3, <1>4, <1>5, <2>1 DEF readVars
<1>6. CASE ChainMoves
  <2>1. /\ UNCHANGED <<reliable, read, seen_peak, found, reply, sure>> /\ reliable
        /\ read.stage # "done" /\ since \subseteq since'
        /\ read.stage # "idle" => chain' \in since'
    BY <1>6 DEF ChainMoves, MoveTo
  <2>2. CallsInOrder' /\ TipsInOrder' /\ \E past : Trail(past)'
    BY <1>6, <2>1, MovesLeaveATrail DEF FollowInv
  <2>3. sure /\ read.stage # "idle" => walk' = [walk EXCEPT !.broken = walk'.broken]
    <3>1. PICK broken : walk' = [walk EXCEPT !.broken = broken]
      BY <1>6 DEF ChainMoves
    <3>. QED  BY <1>4, <3>1 DEF WalkIsARecord
  <2>. QED  BY <1>3, <2>1, <2>2, <2>3
<1>7. CASE ApplyFrame
  <2>1. reliable => CallsInOrder' /\ TipsInOrder' /\ \E past : Trail(past)'
    BY <1>7, FramesFollowTheTrail DEF FollowInv
  <2>. QED  BY <1>5, <1>7, <2>1 DEF ApplyFrame, nodeVars
<1>8. CASE Store
  <2>1. reliable => CallsInOrder' /\ TipsInOrder' /\ \E past : Trail(past)'
    BY <1>8, StoresKeepTheTrail DEF FollowInv
  <2>. QED  BY <1>5, <1>8, <2>1 DEF Store, nodeVars
<1>9. CASE FedAnything
  BY <1>5, <1>9 DEF FedAnything, nodeVars
<1>10. ASSUME NEW wish \in Wishes, Subscribe(wish.ids, wish.hashes) \/ Unsubscribe(wish.ids)
       PROVE  FollowInv'
  <2>1. wish.ids \in SUBSET Coin
    BY ProviderAssumption
  <2>2. reliable => CallsInOrder' /\ TipsInOrder' /\ \E past : Trail(past)'
    BY <1>10, <2>1, CallsKeepTheTrail DEF FollowInv
  <2>. QED  BY <1>5, <1>10, <2>2 DEF Subscribe, Unsubscribe
<1>11. CASE UNCHANGED vars
  <2>1. reliable => CallsInOrder' /\ TipsInOrder' /\ \E past : Trail(past)'
    <3>. SUFFICES ASSUME reliable, NEW past, Trail(past)
                  PROVE  CallsInOrder' /\ TipsInOrder' /\ Trail(past)'
      BY DEF FollowInv
    <3>1. UNCHANGED <<cacheVars, nodeVars, feedVars, readVars>>
      BY <1>11 DEF vars
    <3>2. CallsInOrder'
      BY <3>1 DEF FollowInv, CallsInOrder, Now, StateOf, Existing, nodeVars, feedVars
    <3>. QED  BY <3>1, <3>2, TrailsStay, TipsStay DEF FollowInv, cacheVars, nodeVars, feedVars, readVars
  <2>. QED  BY <1>5, <1>11, <2>1 DEF vars, nodeVars
<1>. QED  BY <1>1, <1>2, <1>6, <1>7, <1>8, <1>9, <1>10, <1>11 DEF Next

\* A read over reliable nodes, and a cache that follows them, tells what was so
\* on the chain while it ran: no block, reorg, spend, subscription or page in
\* between is missed, and no failure is an absence.
THEOREM ReadsTellTheChain == Spec => []ReadsFollowTheChain
<1>1. Init => FollowInv
  <2>. SUFFICES ASSUME Init PROVE FollowInv
    OBVIOUS
  <2>1. ASSUME reliable
        PROVE  TipsInOrder /\ \E past : Trail(past)
    <3>1. chain \in Genesis /\ chain \in [Coin -> Life] /\ tip = 1 /\ peak = {} /\ coins = {}
          /\ stream = <<>> /\ settled = {} /\ sure = FALSE
      BY <2>1, ProviderAssumption DEF Init, CacheInit
    <3>2. \A c \in Coin : Sound(chain[c], 1)
      BY <3>1, ProviderAssumption DEF Sound
    <3>3. Len(stream) = 0 /\ \A i : i \notin 1 .. 0
      BY <3>1, EmptySeq
    <3>4. PICK past : past = [i \in 0 .. 0 |-> chain]
      OBVIOUS
    <3>5. Trail(past)
      BY <3>1, <3>3, <3>4 DEF Trail
    <3>. QED  BY <3>1, <3>2, <3>3, <3>5 DEF TipsInOrder
  <2>2. CallsInOrder
    BY DEF Init, CallsInOrder
  <2>3. ~ sure
    BY DEF Init
  <2>. QED  BY <2>1, <2>2, <2>3 DEF FollowInv, FoundInOrder, ReadsFollowTheChain
<1>2. FollowInv => ReadsFollowTheChain
  BY DEF FollowInv
<1>. QED  BY <1>1, <1>2, TheChainIsFollowed, ProviderInvariance, PTL DEF Spec
=============================================================================
