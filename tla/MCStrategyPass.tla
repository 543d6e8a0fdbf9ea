---------------------------- MODULE MCStrategyPass ----------------------------
\* Three reserves of one vault: the first pays best and is the first to fill up.
EXTENDS StrategyPass

Entry(strategy, rate, cap) ==
  [strategy |-> strategy, rate |-> rate, cap |-> cap,
   fixed |-> [r \in {1, 2} |-> 4 * (r - 1)], floors |-> {3}, floor |-> 50]

MCPlans ==
  {Entry("EQUAL", 0, FALSE), Entry("FIXED_WEIGHTS", 0, FALSE),
   [Entry("FIXED_WEIGHTS", 50, FALSE) EXCEPT !.fixed = <<1, 12, 1>>],
   Entry("RANDOM", 0, FALSE), Entry("UNCHANGED", 0, FALSE),
   Entry("MAX_YIELD", 0, FALSE), Entry("MAX_YIELD", 50, FALSE),
   Entry("MAX_YIELD_STABLE", 0, FALSE),
   Entry("MAX_YIELD_WITH_FIXED_RESERVES", 50, FALSE),
   Entry("MAX_YIELD_DRIPPING", 0, FALSE), Entry("MAX_YIELD_DRIPPING", 50, TRUE),
   Entry("MAX_YIELD_DRIPPING", 100, TRUE)}

MCStarts ==
  {[weight |-> <<1, 2, 1>>, unallocated |-> 0, held |-> <<2, 3, 1>>],
   [weight |-> <<2, 3, 1>>, unallocated |-> 2, held |-> <<1, 2, 1>>],
   [weight |-> <<0, 0, 0>>, unallocated |-> 1, held |-> <<0, 2, 0>>]}

State(limit, lent, capLeft, step, rate, silent) ==
  [limit |-> limit, lent |-> lent, capLeft |-> capLeft, step |-> step,
   rate |-> rate, silent |-> silent]

MCMarkets ==
  {State(<<4, 9, 9>>, <<0, 1, 0>>, <<9, 9, 9>>, <<1, 1, 1>>, <<9, 6, 4>>, {}),
   State(<<9, 2, 4>>, <<3, 0, 0>>, <<9, 9, 1>>, <<2, 1, 1>>, <<5, 9, 8>>, {3})}
===============================================================================
