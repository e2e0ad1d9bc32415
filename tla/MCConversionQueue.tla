------------------------ MODULE MCConversionQueue ------------------------
\* The queues the clients use: the lambda probes trigger the first, the sensors
\* the second and the fourth.  A result of one client reaches no other.
EXTENDS ConversionQueue

MCQueues == {1, 2, 4}
==========================================================================
