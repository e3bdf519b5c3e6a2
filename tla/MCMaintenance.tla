--------------------------- MODULE MCMaintenance ---------------------------
EXTENDS Maintenance

MCParticipants == <<"runtime_pool", "outbox">>
=============================================================================
