---------------------------- MODULE MCPacketQueue ----------------------------
EXTENDS PacketQueue

=============================================================================
