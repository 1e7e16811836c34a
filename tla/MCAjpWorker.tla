---------------------------- MODULE MCAjpWorker ----------------------------
EXTENDS AjpWorker

\* As deployed but for the timeout of idle connections, with a slot for every
\* thread; and with one slot and a reply timeout, options that let every
\* request be repeated, that let none be, and that let only GETs be
\* before their headers are sent.
MCConfigurations ==
  {[ep_cache_sz |-> 2, recovery_opts |-> {},
    cache_timeout |-> TRUE, reply_timeout |-> FALSE]}
  \union
  {[ep_cache_sz |-> 1, recovery_opts |-> opts,
    cache_timeout |-> FALSE, reply_timeout |-> TRUE] :
      opts \in {{}, {"TCGETREQUEST", "TCSENDHEADER"}, {"TCGETREQUEST", "TCSENDHEADER", "GET"}}}
=============================================================================
