--------------------------- MODULE MCPrimeSession ---------------------------
(***************************************************************************)
(* Gateways of several kinds against one small window.  Bound: none both   *)
(* outruns its bucket and asks about several values.                       *)
(***************************************************************************)
EXTENDS PrimeSession

MCWindow == <<[script |-> "p1", part |-> 24, carry |-> 2],
              [script |-> "p2", part |-> 16, carry |-> 0],
              [script |-> "a",  part |-> 8,  carry |-> 0]>>
MCSize == [p1 |-> 3, p2 |-> 2, a |-> 2, pool |-> 0, b |-> 2]
MCRoom == (0 :> 0) @@ (1 :> 2) @@ (2 :> 5) @@ (3 :> 7) @@ (255 :> 0)
MCSectionBytes == (0 :> 1) @@ (1 :> 2) @@ (2 :> 3) @@ (3 :> 4) @@ (255 :> 1)

Plain == [own |-> "a", held |-> FALSE, pins |-> FALSE, house |-> FALSE, class |-> FALSE,
          behind |-> FALSE, reuses |-> FALSE, rescales |-> FALSE, gateway_solo |-> FALSE,
          listed |-> FALSE, txs |-> FALSE, finds |-> FALSE, payouts |-> {"anon"},
          slots |-> 2, sections |-> {2}, values |-> {32}, asks |-> {32}, events |-> {}]

MCGateways ==
  { \* fix a job's script when it is made, and mine to an address in the window
    [Plain EXCEPT !.pins = TRUE, !.listed = TRUE, !.payouts = {"a"}, !.sections = {0}, !.events = {"tip"}],
    [Plain EXCEPT !.pins = TRUE, !.listed = TRUE, !.payouts = {"a"}, !.sections = {0, 3}, !.events = {"restart"}],
    \* stock, under gateway-solo, and with one job at a time
    [Plain EXCEPT !.gateway_solo = TRUE, !.payouts = {"a"}, !.sections = {0}, !.events = {"tip"}],
    [Plain EXCEPT !.gateway_solo = TRUE, !.slots = 1, !.payouts = {"a"}, !.sections = {0, 255}, !.events = {"tip"}],
    \* held-split builds, with one payout and with two
    [Plain EXCEPT !.held = TRUE, !.listed = TRUE, !.payouts = {"a"}, !.sections = {0}, !.events = {"tip"}],
    [Plain EXCEPT !.held = TRUE, !.listed = TRUE, !.slots = 1, !.payouts = {"a"}, !.sections = {0}, !.events = {"tip", "late"}],
    [Plain EXCEPT !.held = TRUE, !.payouts = {"a", "b"}, !.sections = {0}, !.events = {"easy"}],
    \* size classes too small for the list
    [Plain EXCEPT !.class = TRUE, !.sections = {1, 2}],
    \* more sections than Prime keeps
    [Plain EXCEPT !.sections = {0, 1, 2}, !.events = {"close", "bare", "burst"}],
    \* asks for one value and mines another, placing what fits or scaling
    [Plain EXCEPT !.values = {32, 34, 64}, !.asks = {32, 64}, !.sections = {1, 2}],
    [Plain EXCEPT !.values = {32, 34, 64}, !.asks = {32, 64}, !.sections = {2}, !.rescales = TRUE, !.reuses = TRUE],
    \* a node behind on a consensus rule, with checks that come to nothing and with finds
    [Plain EXCEPT !.behind = TRUE, !.txs = TRUE, !.sections = {0}, !.asks = {0}, !.events = {"odd"}],
    [Plain EXCEPT !.behind = TRUE, !.txs = TRUE, !.finds = TRUE, !.slots = 1, !.sections = {0}, !.asks = {0},
                  !.events = {"fork", "lapse"}] }
=============================================================================
