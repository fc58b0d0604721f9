------------------------- MODULE MCServerDescriptors -------------------------
\* The events of the devices are the strings of the configuration; seven
\* descriptors let two clients be served and the third fail.
EXTENDS ServerDescriptors
=============================================================================
