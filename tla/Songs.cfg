SPECIFICATION SongsSpec
CONSTANTS
  \* bogatiry.c
  ASCII_SINGER_COUNT = 4
  MAX_SONG_BUFFER_SIZE = 4
  Files <- AnyFiles
  \* bogatiry2.c
  MAX_SINGERS = 4
  Songs <- AnySongs
  AstrayLimit = 1
INVARIANTS
  NobodySleepsThroughTheirTurn
  NobodySleepsThroughTheirTurn2
PROPERTIES
  RefinesChorus
  EndsOrMissesAVoice
  RefinesChorus2
  EndsOrMissesAVoice2
