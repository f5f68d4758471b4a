----------------------------- MODULE MCPrograms -----------------------------
(* The instance of Programs that TLC checks.                               *)
EXTENDS Programs

CONSTANTS a, b, i1, i2, m1, m2, x1, x2, x3, k1, o1, o2, p1, p2, q1, q2, q3

\* Mean reversion.
Listed(t) == [yes |-> t, active |-> TRUE, closed |-> FALSE, upOrDown |-> TRUE]
MCListed == {Listed(a), Listed(b), [Listed(a) EXCEPT !.closed = TRUE], Listed(NoToken)}

\* Autopilot: one payload of each shape of prices.
NoPrices(volume, comments) ==
    [outcomePrices |-> Missing, prices |-> Missing, yesPrice |-> Missing,
     noPrice |-> Missing, volume |-> volume, comments |-> comments]
MCPayloads ==
    {[NoPrices(10, 30) EXCEPT !.outcomePrices = <<40, 70>>],
     [NoPrices(20, 12) EXCEPT !.prices = <<65, 35>>],
     [NoPrices(10, 5) EXCEPT !.yesPrice = 50],
     NoPrices(1, 1)}

\* Market maker: a book to quote, one without a last price and one without bids.
RawMarket(m) ==
    [market |-> m, crypto |-> TRUE, seconds |-> 300, active |-> TRUE,
     accepting |-> TRUE, resolved |-> FALSE]
MCRawMarkets == {RawMarket(m) : m \in Pairs} \cup {[RawMarket(m1) EXCEPT !.resolved = TRUE]}
MakerBook(bid, ask, last, updates) == [bid |-> bid, ask |-> ask, last |-> last, updates |-> updates]
MCMakerBooks == {MakerBook(47, 53, 49, 2), MakerBook(20, 26, 60, 2), MakerBook(Absent, 50, 20, 0)}

\* Engine: a catalog of two markets, and one with an empty id and a repeated one.
CatalogMarket(id, active, tokens) ==
    [id |-> id, event |-> "e1", slug |-> "s", active |-> active, tokens |-> tokens]
Outcome(token, name) == [token |-> token, outcome |-> name]
MCRawCatalogs ==
    {<<CatalogMarket("m1", TRUE, <<Outcome(x1, "YES"), Outcome(x2, "NO")>>),
       CatalogMarket("m2", TRUE, <<Outcome(x3, "YES")>>)>>,
     <<CatalogMarket("m1", TRUE, <<Outcome(x1, "YES")>>),
       CatalogMarket("", TRUE, <<Outcome(x3, "YES")>>),
       CatalogMarket("m1", FALSE, <<Outcome(x2, "YES")>>)>>}
Point(ts, price) == [ts |-> ts, price |-> price]
MCHistories == {<<>>, <<Point(1, 95), Point(1, 5), Point(0, 5)>>, <<Point(1, 95), Point(2, 50)>>}
MCBookSnapshots ==
    {[ask |-> 60, spread |-> 5, stale |-> FALSE], [ask |-> 40, spread |-> 12, stale |-> FALSE]}

\* Korlic: one market that ends at tick 3.
MCKEnd == [m \in KMarkets |-> 3]

\* MM001: a market in the middle, and one at the edge whose mids do not add up to one.
MCMmTicks == {[market |-> o1, yes |-> 5000, no |-> 5000], [market |-> o2, yes |-> 9900, no |-> 300]}

\* MVP library: levels to reach, levels to dip to with a range among them, markets
\* that are not eligible, and levels that are not written alike.
Grouped(written) == [written |-> written, grouped |-> TRUE, unit |-> 1]
Ungrouped(written, unit) == [written |-> written, grouped |-> FALSE, unit |-> unit]
Asks(words, numbers, about) == [words |-> words, numbers |-> numbers, about |-> about]
RawQuestion(id, question, expiry) ==
    [id |-> id, question |-> question, expiry |-> expiry, tokens |-> {"YES", "NO"},
     underlying |-> "BTC", status |-> "active"]
MCRawLists ==
    {<<RawQuestion(1, Asks({"reach"}, <<Grouped(80000)>>, 1), 2),
       RawQuestion(2, Asks({"reach"}, <<Grouped(95000)>>, 1), 3),
       RawQuestion(3, Asks({"reach"}, <<Grouped(100000), Ungrouped(30, 1)>>, 1), 2)>>,
     <<RawQuestion(1, Asks({"dip"}, <<Grouped(60000)>>, 1), 2),
       RawQuestion(2, Asks({"dip", "between"}, <<>>, 1), 2),
       RawQuestion(3, Asks({"dip"}, <<Ungrouped(70, 1000)>>, 1), 2)>>,
     <<[RawQuestion(1, Asks({"close above"}, <<Grouped(60000)>>, 1), 8) EXCEPT !.status = "closed"],
       [RawQuestion(2, Asks({"close above"}, <<Grouped(60000)>>, 1), 8) EXCEPT !.tokens = {"YES"}],
       RawQuestion(3, Asks({"close below"}, <<Grouped(60000)>>, 1), 20)>>,
     <<RawQuestion(1, Asks({"reach"}, <<Grouped(95000)>>, 1), 2),
       RawQuestion(2, Asks({"reach"}, <<Ungrouped(100000, 1)>>, 1), 2)>>,
     <<RawQuestion(1, Asks({"reach"}, <<Grouped(95000)>>, 1), 2),
       RawQuestion(2, Asks({"reach"}, <<Ungrouped(2, 1), Ungrouped(1, 1000000)>>, 2), 2)>>}
TokenBook(mid, last, ask, spread, depth, age) ==
    [mid |-> mid, last |-> last, ask |-> ask, spread |-> spread, depth |-> depth, age |-> age]
MCPvBooks ==
    {TokenBook(20, 20, 20, 2, 100, 1), TokenBook(60, 60, 60, 2, 50, 1),
     TokenBook(PvNone, 53, 60, 9, 100, 1), TokenBook(60, 60, 60, 2, 20, 1),
     TokenBook(60, 60, 60, 2, 100, 9)}
MCPvUnderlyings ==
    {[age |-> 2, volatile |-> TRUE, far |-> TRUE], [age |-> 6, volatile |-> TRUE, far |-> TRUE],
     [age |-> 2, volatile |-> TRUE, far |-> FALSE]}

\* Listing: five events, one of them without an open market.
Gamma(id, open, valid) == [id |-> id, open |-> open, valid |-> valid]
MCMarketsOf ==
    [e \in Events |->
        CASE e = 1 -> <<Gamma(1, TRUE, TRUE)>>
          [] e = 2 -> <<Gamma(2, FALSE, TRUE), Gamma(3, TRUE, FALSE)>>
          [] e = 3 -> <<Gamma(4, TRUE, TRUE)>>
          [] e = 4 -> <<Gamma(5, TRUE, TRUE), Gamma(6, TRUE, TRUE)>>
          [] OTHER -> <<Gamma(7, FALSE, TRUE)>>]
MCListings == {<<1, 2, 3, 4, 5>>, <<5, 4, 3>>, <<>>}

\* Talic: a mutation, an external call and an event of another type.
MCTypeOf ==
    [k \in Keys |-> CASE k = q1 -> "mutation" [] k = q2 -> "external_call" [] OTHER -> "other"]
=============================================================================
