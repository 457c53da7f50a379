--------------------------- MODULE MCServerStart ---------------------------
EXTENDS ServerStart

\* The document of conf/rocket.xml with two threads, and what may be wrong with it.
Good == [loads |-> TRUE, nodes |-> Required, level |-> 1, port |-> 12345,
         ioThreads |-> 2, stubs |-> <<StubNodes>>]

MCDocuments ==
    {Good,
     [Good EXCEPT !.level = 2, !.port = 0, !.ioThreads = 1],
     [Good EXCEPT !.level = 0, !.stubs = <<>>, !.port = 65536 + 80],
     [Good EXCEPT !.ioThreads = 0],
     [Good EXCEPT !.ioThreads = -1],
     [Good EXCEPT !.loads = FALSE],
     [Good EXCEPT !.nodes = Required \ {"log"}],
     [Good EXCEPT !.stubs = <<StubNodes \ {"timeout"}>>]}

MCEphemeral == {32768}
=============================================================================
