------------------------ MODULE MCConversationTurns ------------------------
EXTENDS ConversationTurns, TLC

\* Requests and tickers are interchangeable.
Interchangeable == Permutations(Chat) \cup Permutations(Ticker)
=============================================================================
