---------------------------- MODULE RewardsProps ----------------------------
(***************************************************************************)
(* What auth-service owes traders and their referrers, and situations of   *)
(* Rewards for TLC: one user who trades, with others, and was referred.    *)
(***************************************************************************)
EXTENDS Rewards, Totals

CONSTANTS ann, ben, w1, w2

Fill(order, taker, maker, fee) ==
    [order |-> order, taker |-> taker, maker |-> maker, fee |-> fee, total |-> 1]
Playing(m, ws, fs, ts, bs, cs) ==
    [mode |-> m, workers |-> ws, faults |-> fs, trades |-> ts, bound |-> bs, coded |-> cs,
     sameIP |-> TRUE, limit |-> 1]
TwoFills == <<Fill(1, ann, ben, 1), Fill(1, ann, None, 2)>>
Mixed == <<Fill(1, ann, ben, 1), Fill(2, ben, ann, 1), Fill(3, ann, None, 0)>>
RewardScenes ==
    {Playing("once", {w1}, {"stop", "timeout"}, TwoFills, {ann}, {}),
     Playing("gapless", {w1}, {"stop", "timeout"}, TwoFills, {ann}, {}),
     Playing("gapless", {w1}, {"stop", "error"}, Mixed, {}, {ann}),
     Playing("once", {w1}, {"codes"}, TwoFills, {ann}, {}),
     Playing("once", {w1, w2}, {}, TwoFills, {ann}, {})}

Waiting == \A w \in scene.workers : Stands(w, "idle")
OneLoop == Cardinality(scene.workers) = 1
Given == given[Detector]
Amounts == [k \in DOMAIN scene.trades |-> scene.trades[k].total]
TotalOf(x, K) == Sum(Amounts, {k \in K : scene.trades[k].taker = x})

(* A referrer is paid at most once for an order, the fee its row shows, and*)
(* no one is paid without a row, however often the trade is given again or *)
(* wherever the service stops: with one instance of it.                    *)
CommissionOnce ==
    OneLoop => \A i \in DOMAIN credits :
        /\ commission[credits[i].order] = credits[i].fee
        /\ \A j \in DOMAIN credits : i # j => credits[i].order # credits[j].order

(* A taker's volume never holds a trade twice over Redis, and over Kafka   *)
(* never lacks one that has been handled, unless the database failed; the  *)
(* cached tier may be out of date, but is never ahead of the volume.       *)
VolumeCounted == \A x \in User :
    /\ mode = "once" => volume[x] <= TotalOf(x, Given)
    /\ mode = "gapless" /\ Waiting /\ "error" \notin scene.faults => volume[x] >= TotalOf(x, 1..(next - 1))
    /\ cache[x].maker <= TierOf(volume[x]) /\ cache[x].taker <= TierOf(volume[x])

(* When trading has come to rest, a tier that lags behind, or two keys of  *)
(* different tiers, which refreshes that overtake one another leave behind,*)
(* do not stay.                                                            *)
TierSettles ==
    <>[](\A x \in User : /\ cache[x].maker \in {None, TierOf(volume[x])}
                         /\ cache[x].taker \in {None, TierOf(volume[x])})

-----------------------------------------------------------------------------
(* Refuted: see the README *)

(* "Credits the referee's referrer with CommissionRate x fee": for every   *)
(* trade that has been handled.                                            *)
EveryFeePaid ==
    scene.faults \subseteq {"codes"} /\ OneLoop /\ Waiting =>
        \A k \in Given : LET t == scene.trades[k] IN
            t.taker \in bound /\ t.fee > 0 =>
                \E i \in DOMAIN credits : credits[i] = [order |-> t.order, fee |-> t.fee]

(* "The unique index will reject the second insert, which we treat as      *)
(* no-op": two instances do not both pay for one row.                      *)
RowPaysOnce == \A i, j \in DOMAIN credits : i # j => credits[i].order # credits[j].order

(* A row of the commission table stands for money paid. *)
RowIsPaid == Waiting => \A o \in Orders : commission[o] # None =>
                        \E i \in DOMAIN credits : credits[i].order = o

(* "So the wallet projector sees this delta": once. *)
AnnouncedOnce == announced <= Len(credits)

(* When no refresh is under way the cached tier is that of the volume. *)
TierIsCurrent == refreshing = {} => \A x \in User :
    cache[x].maker \in {None, TierOf(volume[x])} /\ cache[x].taker \in {None, TierOf(volume[x])}

(* "Each user has exactly one default code." *)
OneDefaultCode == codes <= 1

(* The usage counter of a code counts its referrals. *)
UsageCounted == (\A x \in User : binding[x] = "done") => usage = Cardinality(bound)
=============================================================================
