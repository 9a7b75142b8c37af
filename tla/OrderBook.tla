------------------------------ MODULE OrderBook ------------------------------
(***************************************************************************)
(* OrderBookService (src/slipstream/market): the last quote of its symbol, *)
(* and how many there were.  A book is a value here, and setQuote makes    *)
(* the next one of it.                                                     *)
(***************************************************************************)
LOCAL INSTANCE Integers

CONSTANT symbol   \* --symbol

\* The constructor leaves latestQuote uninitialised.
NewBook == [latestQuote |-> "garbage", quotesReceived |-> 0]

\* (Faulty: a quote of another symbol is not told from one of the book's.)
SetAnyQuote(book, quote) ==
  [latestQuote |-> quote, quotesReceived |-> book.quotesReceived + 1]

SetQuote(book, quote) ==
  IF quote.symbol # symbol THEN book
  ELSE [latestQuote |-> quote, quotesReceived |-> book.quotesReceived + 1]
=============================================================================
