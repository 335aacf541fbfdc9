CONSTANTS
  w1 = w1
  w2 = w2
  Workers = {w1, w2}
  Tokens = {t1}
  Streams = {s1, s2}
  Home <- OneHome
  MaxMishaps = 0
  NoToken = NoToken
  NoStream = NoStream
SPECIFICATION FairSpec
PROPERTY SignedOutStreamsEnd
