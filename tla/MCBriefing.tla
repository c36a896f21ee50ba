----------------------------- MODULE MCBriefing -----------------------------
(***************************************************************************)
(* Instances of Briefing for TLC: prices around a previous close of 100,   *)
(* six bars of history, and a week with a weekend in it.  The thresholds   *)
(* are those of config.ts in hundredths.                                   *)
(***************************************************************************)
EXTENDS Briefing

MCEnter ==
  [sigma_move |-> 200, idio_move |-> 200, gap |-> 150, range_break |-> 150,
   volume_spike |-> 250, trend_flip |-> 100, vol_regime |-> 180, drawdown |-> 105,
   stale_data |-> 100, data_conflict |-> 101]
MCExit ==
  [sigma_move |-> 100, idio_move |-> 100, gap |-> 150, range_break |-> 100,
   volume_spike |-> 150, trend_flip |-> 50, vol_regime |-> 125, drawdown |-> 100,
   stale_data |-> 60, data_conflict |-> 100]
MCSpans ==
  [year |-> 6, month |-> 3, vol |-> 6, short |-> 2, atr |-> 3, volume |-> 3,
   fast |-> 2, slow |-> 4]
MCPreference == [cnbc |-> 1, yahoo |-> 2]
(* The clocks go forward between the second instant and the first. *)
MCSummerTime == {<<13, 26>>}
MCNameOrder == [a |-> 1, b |-> 2]

Bar(ts, close, adj) ==
  [ts |-> ts, close |-> close, adj |-> adj, high |-> close + 2, low |-> close - 2,
   volume |-> 10]
Bars(closes) == [i \in DOMAIN closes |-> Bar(i, closes[i], 0)]

Index == Bars(<<200, 204, 202, 206, 200, 202>>)
Proxy == Bars(<<50, 52, 50, 53, 50, 51>>)
(* A steady name, one that split after its second bar, one in a downtrend. *)
Steady == [bars |-> Bars(<<98, 102, 99, 103, 98, 100>>), market |-> Index, sector |-> Proxy]
Split == [bars |-> <<Bar(1, 196, 98), Bar(2, 204, 102)>> \o SubSeq(Steady.bars, 3, 6),
          market |-> Index, sector |-> <<>>]
Fallen == [bars |-> Bars(<<150, 152, 130, 120, 104, 100>>), market |-> Index,
           sector |-> SubSeq(Proxy, 2, 6)]
MCSetups ==
  {[market |-> "us", bars |-> [a |-> Steady, b |-> None]],
   [market |-> "simulated", bars |-> [a |-> Fallen, b |-> Split]]}

Raw(source, price, open, volume, age) ==
  [source |-> source, price |-> price, prevClose |-> 100, dayOpen |-> open,
   dayHigh |-> open + 2, dayLow |-> open - 2, volume |-> volume, asOf |-> age,
   halted |-> FALSE]
Scene(raws, index, proxy) ==
  [raws |-> raws, benchmark |-> index, sector |-> proxy]
Close(price) == [price |-> price, prevClose |-> 100]

Surge == Scene({Raw("cnbc", 120, 110, 90, 0), Raw("yahoo", 120, 110, 40, 1)},
               Close(100), Close(100))
Ride == Scene({Raw("yahoo", 108, 100, 6, 0)}, Close(106), Close(108))
Crash == Scene({Raw("cnbc", 64, 70, 6, 0)}, None, None)
Dispute == Scene({Raw("cnbc", 100, 100, 6, 0), Raw("yahoo", 110, 100, 6, 0)}, Close(100), None)
Old == Scene({Raw("cnbc", 120, 100, 6, 12)}, Close(100), None)
Ahead == Scene({Raw("cnbc", 120, 100, 6, -6)}, Close(100), None)
Nothing == Scene({Raw("cnbc", 0, 100, 6, 0)}, Close(100), None)

MCScenes ==
  [us |-> [a |-> {Surge, Crash, Old}, b |-> {Dispute}],
   simulated |-> [a |-> {Surge, Ride, Ahead, Nothing}, b |-> {Crash}]]
MCPrefs == [a |-> {[pinned |-> FALSE, muted |-> FALSE, minSigma |-> 1000]},
            b |-> {[pinned |-> FALSE, muted |-> TRUE, minSigma |-> None]}]
=============================================================================
