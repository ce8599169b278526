-------------------------- MODULE MCResolverClient --------------------------
EXTENDS ResolverClient, TLC
=============================================================================
