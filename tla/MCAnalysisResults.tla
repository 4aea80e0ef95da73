-------------------------- MODULE MCAnalysisResults --------------------------
EXTENDS AnalysisResults, TLC

PlainUrl == [valid |-> TRUE, http |-> FALSE, ip |-> FALSE, tld |-> FALSE,
             deep |-> FALSE, port |-> FALSE, keywords |-> 0,
             long |-> FALSE, encoded |-> FALSE]

\* submission.url ?? '' of a file or hash submission.
EmptyUrl == [PlainUrl EXCEPT !.valid = FALSE]

PlainFile == [name |-> <<FALSE>>, entropy |-> "low", pe |-> "no", imports |-> 0]

Sample(type, file, url, sha256, storage_key, safeMime) ==
    [type |-> type, file |-> file, url |-> url, sha256 |-> sha256,
     storage_key |-> storage_key, safeMime |-> safeMime]

MCSamples == {
    \* an uploaded executable, packed and with dangerous imports
    Sample("file", [name |-> <<FALSE, TRUE, TRUE>>, entropy |-> "high",
                    pe |-> "parsed", imports |-> 6], EmptyUrl, TRUE, TRUE, FALSE),
    \* a picture, and metadata without a hash
    Sample("file", PlainFile, EmptyUrl, TRUE, TRUE, TRUE),
    Sample("file", [PlainFile EXCEPT !.name = <<FALSE, TRUE>>], EmptyUrl,
           FALSE, FALSE, FALSE),
    \* a plain and a suspicious URL, a hash
    Sample("url", PlainFile, PlainUrl, FALSE, FALSE, FALSE),
    Sample("url", PlainFile, [PlainUrl EXCEPT !.http = TRUE, !.ip = TRUE, !.keywords = 2],
           FALSE, FALSE, FALSE),
    Sample("hash", PlainFile, EmptyUrl, TRUE, FALSE, FALSE)}

SlotSymmetry == Permutations(Slots)
=============================================================================
