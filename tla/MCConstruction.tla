---------------------------- MODULE MCConstruction ----------------------------
(* Every defect of a base URL, alone and together with others; up to three
   options of eleven, so that any two of a kind can meet a third. *)
EXTENDS Construction

MCURLs == [parses : BOOLEAN, scheme : {"https", "other"},
           host : {"", "host"}, query : {"", "base"},
           forceQuery : BOOLEAN, fragment : {"", "base"}]

MCOptions == {
    [httpClient |-> "nil"], [httpClient |-> "custom"],
    [userAgent |-> ""], [userAgent |-> "custom"],
    [requestTimeout |-> -1], [requestTimeout |-> 0],
    [retryEnabled |-> TRUE, maxRetries |-> -1],
    [retryEnabled |-> TRUE, maxRetries |-> 2],
    [retryEnabled |-> FALSE, maxRetries |-> 0],
    [retryMaxWait |-> -1], [retryMaxWait |-> 4]}
=============================================================================
