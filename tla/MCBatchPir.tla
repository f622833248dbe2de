------------------------------ MODULE MCBatchPir ------------------------------
EXTENDS BatchPir

\* In order, out of order, and repeated: three indices can share a bucket.
MCBatches == {<<0, 1, 2>>, <<3, 1, 0>>, <<2, 2, 3>>}
===============================================================================
