------------------------------- MODULE Replay -------------------------------
(***************************************************************************)
(* etfmm_replay (cpp/src/replay_main.cpp): read a tape frame by frame,     *)
(* apply each to the order book of its venue (order_book.cpp), and show    *)
(* both mids to the basis strategy (basis_strategy.cpp) after each frame.  *)
(*                                                                         *)
(* A book is the set of price levels on each side: quantities matter only  *)
(* as positive or not.  Prices are whatever the payload says, or 0 where   *)
(* it says none.  Mids are kept doubled.  Deviations are integers, of      *)
(* 1 / Scale, and divisions round down where the code rounds a double.     *)
(***************************************************************************)
EXTENDS Tape, Integers, FiniteSets, FiniteSetsExt

CONSTANTS
    Venues,     \* spot and perp
    Spot, Perp,
    Prices,     \* what the prices of payloads may be
    Scale,      \* 1e4, basis points
    AlphaNum,
    AlphaDen,   \* ewma_alpha = AlphaNum / AlphaDen
    Threshold,  \* threshold_bps
    None        \* std::nullopt

(* What a payload may hold: an update of a book, an envelope whose stream  *)
(* is no string, or anything else.  Prices are doubles, of which there are *)
(* finitely many.                                                          *)
Updating == {"ticker", "depth"}
WellFormed(c) ==
    /\ c.kind \in Updating \cup {"unnamed", "other"}
    /\ c.kind \in Updating => c.venue \in Venues
    /\ c.kind = "ticker" /\ c.quoted => c.bid \in Prices /\ c.ask \in Prices
    /\ c.kind = "depth" => /\ c.bidDiffs \in Seq([px : Prices, qty : Int])
                           /\ c.askDiffs \in Seq([px : Prices, qty : Int])

ASSUME ReplayAssumption ==
    /\ Venues = {Spot, Perp} /\ Spot # Perp
    /\ Prices \subseteq Int /\ IsFiniteSet(Prices)
    /\ \A c \in Contents : WellFormed(c)
    /\ Scale \in Nat \ {0} /\ Threshold \in Nat \ {0}
    /\ AlphaNum \in Nat \ {0} /\ AlphaDen \in Nat /\ AlphaNum <= AlphaDen
    /\ None \notin Int

VARIABLES
    bids, asks,         \* the books' levels
    ewma,               \* ewma_bps_, None until the first sample
    armed,              \* armed_
    parsedOk, parsedErr,
    terminated,         \* an exception has left main
    samples             \* the strategy's updates: mids, ewma_bps_, event (history)

bookVars == <<bids, asks>>
strategyVars == <<ewma, armed, samples>>
mainVars == <<parsedOk, parsedErr, terminated>>
vars == <<tapeVars, bookVars, strategyVars, mainVars>>

Init ==
    /\ TapeInit
    /\ bids = [v \in Venues |-> {}] /\ asks = [v \in Venues |-> {}]
    /\ ewma = None /\ armed = TRUE
    /\ parsedOk = 0 /\ parsedErr = 0 /\ terminated = FALSE
    /\ samples = <<>>

-----------------------------------------------------------------------------
(* OrderBook                                                               *)

(* apply_diff_: in order, a positive quantity sets the level, zero erases. *)
ApplyDiff(levels, updates) ==
    FoldLeft(LAMBDA s, u : IF u.qty > 0 THEN s \cup {u.px} ELSE s \ {u.px},
             levels, updates)

(* Mutant of SnapshotLevels: the side is not cleared first.                *)
SnapshotLevelsMerged(levels, px) == levels \cup {px}
SnapshotLevels(levels, px) == {px}

(* apply_book_ticker and apply_depth_update.  A ticker without a positive  *)
(* quantity on both sides changes nothing; one without a price sets it 0.  *)
BidsAfter(c) ==
    CASE c.kind = "ticker" /\ c.quoted -> SnapshotLevels(bids[c.venue], c.bid)
      [] c.kind = "depth" -> ApplyDiff(bids[c.venue], c.bidDiffs)
      [] OTHER -> bids[c.venue]
AsksAfter(c) ==
    CASE c.kind = "ticker" /\ c.quoted -> SnapshotLevels(asks[c.venue], c.ask)
      [] c.kind = "depth" -> ApplyDiff(asks[c.venue], c.askDiffs)
      [] OTHER -> asks[c.venue]

ApplyToBook(c) ==
    /\ bids' = [bids EXCEPT ![c.venue] = BidsAfter(c)]
    /\ asks' = [asks EXCEPT ![c.venue] = AsksAfter(c)]

(* mid, doubled; None while a side is empty.                               *)
Mid2(bidLevels, askLevels) ==
    IF bidLevels = {} \/ askLevels = {} THEN None
    ELSE Max(bidLevels) + Min(askLevels)

-----------------------------------------------------------------------------
(* BasisStrategy                                                           *)

RawDeviation(spot2, perp2) == ((perp2 - spot2) * Scale) \div spot2

(* The first deviation is taken as it is.                                  *)
Averaged(old, raw) ==
    IF old = None THEN raw ELSE (AlphaNum * raw + (AlphaDen - AlphaNum) * old) \div AlphaDen

Above(dev) == dev > Threshold \/ dev < -Threshold

Sample(spot2, perp2, dev, event) == [spot2 |-> spot2, perp2 |-> perp2, dev |-> dev, event |-> event]

(* Mutant of Usable: only the mid that is divided by is looked at.         *)
UsableSpot(spot2, perp2) == spot2 > 0
Usable(spot2, perp2) == spot2 > 0 /\ perp2 > 0

(* A mid that is not positive is seen and skipped.                         *)
Skip(spot2, perp2) ==
    /\ samples' = Append(samples, Sample(spot2, perp2, ewma, FALSE))
    /\ UNCHANGED <<ewma, armed>>
TakeSample(spot2, perp2) ==
    LET dev == Averaged(ewma, RawDeviation(spot2, perp2))
    IN  /\ ewma' = dev
        /\ armed' = ~Above(dev)
        /\ samples' = Append(samples, Sample(spot2, perp2, dev, Above(dev) /\ armed))
OnUpdate(spot2, perp2) ==
    \/ Usable(spot2, perp2) /\ TakeSample(spot2, perp2)
    \/ ~Usable(spot2, perp2) /\ Skip(spot2, perp2)

(* The strategy runs when both books have a mid.                           *)
RunStrategy ==
    LET spot2 == Mid2(bids'[Spot], asks'[Spot])
        perp2 == Mid2(bids'[Perp], asks'[Perp])
    IN  IF None \in {spot2, perp2} THEN UNCHANGED strategyVars
        ELSE OnUpdate(spot2, perp2)

-----------------------------------------------------------------------------
(* The loop of main.                                                       *)

(* The stream is read from the envelope outside the try: if it is there    *)
(* but is no string, the exception leaves main.                            *)
Unnamed(frame) == Genuine(frame) /\ Content(frame).kind = "unnamed"
Parsed(frame) == Genuine(frame) /\ Content(frame).kind \in Updating

(* Mutant of CountError: the frame is not counted.                         *)
CountErrorNot == UNCHANGED mainVars
CountError == parsedErr' = parsedErr + 1 /\ UNCHANGED <<parsedOk, terminated>>

(* One iteration, for the frame read_frame has just returned.  What is no  *)
(* JSON object of a known stream is an error; bytes that are no frame are  *)
(* none either.                                                            *)
OnFrame(frame) ==
    \/ /\ Parsed(frame)
       /\ parsedOk' = parsedOk + 1
       /\ ApplyToBook(Content(frame))
       /\ RunStrategy
       /\ UNCHANGED <<parsedErr, terminated>>
    \/ /\ Unnamed(frame)
       /\ terminated' = TRUE
       /\ UNCHANGED <<parsedOk, parsedErr, bookVars, strategyVars>>
    \/ /\ ~Parsed(frame) /\ ~Unnamed(frame)
       /\ CountError
       /\ UNCHANGED <<bookVars, strategyVars>>

ReplayFrame ==
    /\ ~terminated /\ AtFrame
    /\ \E len \in ClaimedLengths :
          \/ ReadFrame(len) /\ OnFrame(got'[Len(got')])
          \/ ReadTornPayload(len) /\ UNCHANGED <<bookVars, strategyVars, mainVars>>

TapeOnly ==
    /\ Writer \/ OpenReader \/ (ReadEnd /\ ~terminated)
    /\ UNCHANGED <<bookVars, strategyVars, mainVars>>

Next == TapeOnly \/ ReplayFrame

Spec == Init /\ [][Next]_vars

-----------------------------------------------------------------------------
TypeOK ==
    /\ TapeTypeOK
    /\ bids \in [Venues -> SUBSET Prices] /\ asks \in [Venues -> SUBSET Prices]
    /\ ewma \in Int \cup {None} /\ armed \in BOOLEAN
    /\ terminated \in BOOLEAN
    /\ parsedOk + parsedErr = Len(got) - (IF terminated THEN 1 ELSE 0)
    /\ Len(samples) <= parsedOk

(* What a content says of a level of one side: the last update in it that  *)
(* speaks of the price; a quoting ticker speaks of every price.            *)
Quoting(c) == c.kind = "ticker" /\ c.quoted
Updates(c, side) == IF side = "bid" THEN c.bidDiffs ELSE c.askDiffs
Mentions(c, side, p) ==
    Quoting(c) \/ (c.kind = "depth" /\ \E k \in DOMAIN Updates(c, side) : Updates(c, side)[k].px = p)
Sets(c, side, p) ==
    IF Quoting(c) THEN (IF side = "bid" THEN c.bid ELSE c.ask) = p
    ELSE LET ks == {k \in DOMAIN Updates(c, side) : Updates(c, side)[k].px = p}
         IN  Updates(c, side)[Max(ks)].qty > 0

(* A level is in the book exactly if the last update of its venue that     *)
(* spoke of it set it: snapshots and diffs of both venues, read from one   *)
(* interleaved tape, never leave a stale level nor lose a live one.        *)
Heard(v) == {i \in DOMAIN got : Parsed(got[i]) /\ Content(got[i]).venue = v}
BookIsLastWord ==
    \A v \in Venues :
        LET heard == Heard(v) IN
        \A side \in {"bid", "ask"}, p \in Prices :
            LET about == {i \in heard : Mentions(Content(got[i]), side, p)}
            IN  p \in (IF side = "bid" THEN bids[v] ELSE asks[v])
                    <=> about # {} /\ Sets(Content(got[Max(about)]), side, p)

(* "an event fires only on the transition from |dev| <= threshold to |dev| *)
(* > threshold": one event per excursion of the smoothed deviation, to     *)
(* either side, the first sample counting as coming from inside.  A mid    *)
(* that is not positive fires nothing, and neither ends an excursion nor   *)
(* enters the average: both continue from the last mids that were usable.  *)
Positive(s) == s.spot2 > 0 /\ s.perp2 > 0
UsableBefore(k) == {j \in 1 .. k - 1 : Positive(samples[j])}
DevBefore(k) == IF UsableBefore(k) = {} THEN None ELSE samples[Max(UsableBefore(k))].dev
OutsideBefore(k) == UsableBefore(k) # {} /\ Above(DevBefore(k))
EventsAreCrossings ==
    \A k \in DOMAIN samples :
        LET s == samples[k]
        IN  IF Positive(s)
              THEN /\ s.dev = Averaged(DevBefore(k), RawDeviation(s.spot2, s.perp2))
                   /\ s.event <=> Above(s.dev) /\ ~OutsideBefore(k)
              ELSE ~s.event
=============================================================================
