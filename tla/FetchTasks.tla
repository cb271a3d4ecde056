------------------------------ MODULE FetchTasks ------------------------------
(* The tasks that use the one fetcher of the application, and with it the one  *)
(* bucket and the one breaker: the health tick and the crawl requests.         *)
CONSTANT Callers
=============================================================================
