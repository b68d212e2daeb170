------------------------ MODULE MCResourceManagers ------------------------
EXTENDS ResourceManagers
=============================================================================
