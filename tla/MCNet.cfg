CONSTANTS
  NumDescriptors = 3
  MaxTransmitRequest = 2
  Frames <- MCFrames
  Me = Me
  STATIC_IP = STATIC_IP
  Broadcast = Broadcast
  NoAddress = NoAddress
  GatewayIp = GatewayIp
  NoFrame = NoFrame
  NoBuffer = NoBuffer
  Packet = Packet
  Peer = Peer
  PeerIp = PeerIp
  Host = Host
  HostIp = HostIp
  OtherIp = OtherIp
SPECIFICATION Spec
INVARIANTS
  TypeOK
  InFlightIsHeld
  AnswersGoBack
  DmaOwnsTheRest
PROPERTIES
  ImplementsFrameQueue
  IsrEnds
  ReceptionGoesOn
