------------------------------ MODULE DmhcPerm ------------------------------
(***************************************************************************)
(* The permutation tables of the random-permutation hashes, as             *)
(* init_hashes loads them: iperm.c into perm4 and perm5.c, perm6.c and     *)
(* perm7.c into perm5172, perm6237886 and perm7128386.  perm4.c is not     *)
(* compiled in.  A block holds 128 entries, in the order of the file.      *)
(***************************************************************************)
EXTENDS Naturals, Sequences

TableLength == 2048

perm5_0 == <<
  640, 535, 1414, 1232, 2036, 1783, 476, 159, 832, 456, 1072, 643, 1208, 732, 1252, 735,
  1216, 664, 1112, 531, 952, 348, 748, 127, 512, 1903, 256, 1640, 2012, 1375, 1750, 1120,
  1504, 887, 1286, 688, 1108, 2046, 982, 440, 920, 415, 934, 472, 1036, 623, 1238, 880,
  1552, 1255, 1990, 1760, 568, 412, 1292, 1215, 184, 193, 1242, 1342, 496, 694, 1936, 252,
  1600, 28, 1488, 34, 1612, 282, 6, 784, 2047, 1999, 1546, 625, 764, 1963, 1978, 1634,
  112, 1623, 266, 1942, 756, 1975, 1594, 1657, 2039, 1081, 446, 2014, 448, 1087, 850, 1693,
  1664, 766, 2027, 273, 680, 226, 860, 637, 2015, 1518, 682, 940, 352, 1945, 526, 1290,
  2031, 307, 500, 1795, 328, 1898, 712, 634, 1951, 1875, 1270, 1777, 1472, 358, 360, 1478 >>
perm5_1 == <<
  1792, 1305, 20, 1774, 816, 2009, 1922, 1938, 576, 1420, 1482, 765, 1180, 820, 1961, 1597,
  1959, 1205, 814, 1563, 1974, 1976, 1160, 783, 1899, 1572, 846, 1925, 1949, 1786, 1882, 1243,
  1996, 1973, 604, 822, 316, 972, 908, 2024, 2023, 1991, 1024, 1155, 580, 1177, 2037, 268,
  1962, 317, 1172, 1336, 812, 1470, 1444, 737, 1935, 1018, 146, 464, 1967, 1891, 1126, 1944,
  1344, 1392, 1930, 1376, 1316, 607, 1102, 1858, 160, 1911, 354, 1988, 1696, 1419, 514, 825,
  1879, 1417, 1702, 1370, 424, 702, 370, 1264, 1895, 1237, 322, 639, 1921, 1315, 1678, 1452,
  1871, 1068, 914, 181, 692, 628, 1810, 1885, 648, 1880, 858, 1028, 1823, 1508, 12, 1585,
  800, 1277, 1210, 602, 1260, 1381, 968, 24, 1939, 153, 1228, 1780, 16, 1327, 1931, 611 >>
perm5_2 == <<
  384, 1441, 202, 251, 1588, 1828, 1914, 2022, 192, 848, 1862, 705, 1692, 421, 454, 14,
  2000, 1806, 2035, 676, 1456, 1977, 1642, 1054, 1932, 298, 134, 1993, 244, 522, 364, 1534,
  1839, 1884, 706, 167, 964, 1844, 1304, 853, 1744, 475, 552, 1946, 1248, 124, 1799, 187,
  1852, 433, 1782, 1775, 532, 1886, 1957, 1929, 608, 137, 2003, 1894, 1767, 1567, 1032, 1861,
  1811, 787, 590, 52, 900, 1411, 1787, 1434, 1848, 145, 734, 1002, 1719, 587, 1624, 1856,
  1056, 1170, 1785, 495, 1910, 343, 1941, 2034, 1987, 1680, 1740, 1943, 152, 228, 1980, 1892,
  544, 2033, 1770, 198, 136, 1514, 1715, 1718, 1853, 1182, 1754, 1267, 960, 1835, 1855, 1913,
  1784, 1954, 1857, 1689, 1995, 1652, 856, 1532, 336, 616, 1834, 597, 304, 1493, 1679, 1960 >>
perm5_3 == <<
  1727, 1113, 2045, 1738, 1512, 1826, 958, 444, 1432, 612, 1298, 1878, 1926, 835, 1676, 2005,
  1687, 505, 100, 1217, 1675, 1445, 564, 1213, 1859, 545, 874, 1849, 2044, 1684, 1805, 1064,
  1665, 517, 122, 1279, 1704, 114, 1768, 302, 2029, 238, 930, 1730, 1739, 1069, 1560, 391,
  1807, 1869, 1510, 204, 484, 739, 1889, 1186, 1384, 1569, 138, 1934, 2004, 636, 802, 973,
  1152, 1685, 1660, 170, 1994, 677, 1801, 1288, 48, 436, 862, 1329, 1984, 811, 1707, 497,
  1863, 411, 1694, 577, 1831, 1019, 562, 1674, 1464, 1581, 1128, 1095, 1156, 1314, 2, 1761,
  1631, 1409, 1619, 1337, 696, 178, 1348, 1084, 1649, 955, 1096, 1378, 248, 1758, 1904, 870,
  1745, 1553, 1352, 1325, 1468, 237, 730, 1402, 1736, 209, 1438, 1317, 1854, 1814, 1816, 2013 >>
perm5_4 == <<
  1663, 207, 1524, 1525, 216, 665, 1598, 721, 1671, 190, 286, 627, 1583, 533, 106, 1459,
  32, 1616, 1781, 399, 56, 1507, 210, 713, 1700, 1075, 942, 2011, 68, 842, 418, 1604,
  1759, 1733, 380, 51, 1724, 386, 1711, 1643, 1682, 1533, 1907, 593, 1568, 1703, 992, 366,
  1639, 233, 1627, 1538, 1539, 78, 1535, 116, 1923, 271, 956, 573, 1537, 1052, 1737, 265,
  1503, 1190, 1620, 913, 1436, 937, 888, 1764, 2019, 1638, 866, 1997, 1824, 1965, 1517, 794,
  1497, 1551, 142, 429, 1523, 1055, 1544, 1586, 736, 1666, 700, 747, 1324, 991, 1196, 501,
  1454, 752, 1458, 337, 1593, 727, 1625, 519, 560, 1446, 1559, 1311, 1469, 948, 236, 1484,
  624, 1511, 1475, 97, 212, 1429, 902, 1690, 1592, 1870, 1406, 1883, 1575, 101, 1709, 1117 >>
perm5_5 == <<
  1471, 1651, 1443, 1529, 1481, 1494, 1306, 1628, 1749, 530, 1451, 1397, 536, 1580, 1404, 1591,
  1701, 1455, 582, 1752, 1611, 868, 622, 1137, 1729, 313, 368, 1200, 1499, 1070, 120, 1393,
  1735, 1905, 1562, 490, 1763, 817, 1506, 325, 1403, 423, 1046, 1147, 1485, 1710, 1636, 534,
  1427, 1367, 1322, 1756, 1574, 1407, 2030, 1837, 1418, 1098, 1601, 70, 2021, 1731, 1669, 1609,
  1359, 288, 1463, 1986, 312, 1956, 1617, 909, 1802, 1349, 1391, 2018, 1405, 369, 1595, 1424,
  1741, 1251, 1346, 1127, 1654, 1677, 1982, 1985, 1351, 342, 1647, 1755, 1465, 1577, 1401, 1584,
  768, 1448, 632, 1550, 1940, 130, 428, 1565, 1955, 182, 1042, 1520, 1319, 1548, 1748, 1743,
  208, 1287, 1307, 469, 1614, 470, 1299, 43, 1793, 523, 1928, 667, 1818, 1536, 1549, 139 >>
perm5_6 == <<
  1599, 1369, 1490, 1377, 996, 1394, 1728, 1566, 1695, 1487, 962, 559, 180, 1350, 1540, 1354,
  1296, 118, 8, 1225, 1355, 98, 1263, 1496, 944, 1356, 754, 1789, 1877, 1528, 1399, 1282,
  1358, 1868, 90, 1705, 200, 1139, 1457, 1825, 1843, 1413, 18, 1246, 1265, 1338, 1224, 1256,
  1847, 1952, 1239, 1387, 1573, 823, 804, 1077, 1495, 77, 42, 1368, 932, 650, 1757, 1106,
  1247, 1753, 788, 201, 1204, 1254, 1363, 1797, 1992, 1206, 1272, 1686, 1332, 1603, 780, 1467,
  1439, 831, 1389, 1310, 1294, 1380, 844, 662, 1489, 649, 1343, 1281, 1223, 1502, 1014, 367,
  1257, 1896, 1772, 1157, 1474, 1833, 1766, 1278, 1189, 277, 1827, 1240, 1276, 984, 172, 1697,
  1846, 1712, 1297, 1630, 1199, 903, 1185, 1340, 1966, 1115, 1543, 1618, 1608, 1385, 990, 993 >>
perm5_7 == <<
  1207, 1091, 1379, 1902, 2008, 1209, 718, 407, 1289, 73, 66, 1466, 1721, 781, 912, 1901,
  1916, 1361, 1178, 578, 600, 445, 1629, 769, 1691, 489, 708, 1334, 1201, 651, 1187, 108,
  1175, 1491, 1143, 1335, 1673, 2042, 1670, 1021, 1667, 699, 1134, 413, 1912, 235, 762, 1308,
  1333, 491, 1576, 1571, 1408, 1998, 1433, 194, 1635, 1291, 666, 410, 1195, 1300, 722, 1328,
  1119, 669, 1447, 1301, 1832, 241, 1622, 1083, 1873, 1794, 1621, 250, 1681, 1099, 1259, 1103,
  1078, 1262, 1176, 1658, 1872, 61, 276, 922, 1266, 1845, 1165, 569, 332, 586, 1969, 1357,
  1231, 362, 50, 289, 36, 1062, 1073, 641, 1309, 1751, 1118, 1088, 1214, 1462, 1373, 1773,
  432, 1168, 340, 1829, 1812, 397, 1080, 349, 1074, 1067, 372, 1371, 924, 1184, 1151, 1720 >>
perm5_8 == <<
  1025, 1964, 1161, 2041, 1094, 53, 1526, 1396, 1888, 1808, 1031, 2025, 1033, 1347, 1716, 741,
  1135, 279, 102, 1148, 2007, 1648, 1038, 1104, 1249, 1442, 1732, 295, 1101, 247, 1007, 943,
  1203, 1312, 1154, 1230, 1023, 1268, 1971, 1057, 1229, 1437, 1970, 613, 1578, 1473, 1303, 1953,
  1341, 1013, 1947, 1107, 1043, 1244, 1163, 1937, 1555, 1933, 1150, 1430, 1769, 1422, 510, 1173,
  979, 1917, 1915, 1188, 1167, 527, 1061, 1048, 959, 1136, 1804, 211, 1421, 1893, 988, 1140,
  957, 947, 1412, 1881, 1011, 85, 2001, 135, 987, 1000, 1867, 511, 284, 1273, 983, 197,
  416, 1235, 390, 177, 1450, 1050, 774, 1841, 939, 1211, 1121, 1133, 1602, 1876, 1683, 1908,
  935, 3, 1819, 901, 1815, 1813, 911, 1809, 1615, 1269, 1477, 67, 969, 329, 1653, 965 >>
perm5_9 == <<
  1791, 1049, 1897, 89, 1114, 1044, 1124, 1924, 1079, 321, 570, 757, 897, 1765, 1035, 1045,
  919, 1644, 86, 427, 1386, 999, 374, 899, 504, 1071, 971, 978, 998, 169, 883, 1633,
  905, 1725, 38, 1326, 92, 1717, 94, 767, 1015, 890, 566, 970, 1400, 29, 1699, 1001,
  1271, 945, 1331, 107, 926, 499, 1556, 503, 951, 287, 997, 19, 1527, 1345, 1111, 839,
  863, 583, 852, 129, 1509, 471, 1063, 854, 843, 1645, 837, 1641, 929, 55, 414, 393,
  865, 1129, 1146, 1082, 300, 119, 869, 751, 1162, 703, 1040, 864, 1840, 1605, 1202, 1,
  872, 1865, 1989, 171, 1483, 1723, 1587, 1449, 917, 461, 1105, 1570, 1181, 341, 916, 1606,
  795, 809, 1900, 567, 1169, 1661, 967, 1227, 799, 1274, 893, 1545, 1851, 1284, 989, 827 >>
perm5_10 == <<
  1198, 884, 1531, 921, 1650, 1672, 1822, 1521, 1519, 259, 1515, 1513, 1012, 1365, 1416, 1505,
  879, 1501, 1149, 1838, 791, 1742, 1234, 994, 819, 813, 1218, 1158, 742, 217, 1428, 875,
  808, 1159, 834, 155, 975, 936, 1089, 1179, 896, 1453, 1372, 1374, 904, 963, 949, 2017,
  775, 1004, 1076, 1194, 1431, 1009, 841, 1425, 1423, 1864, 1842, 1460, 803, 1110, 1058, 1174,
  2032, 621, 740, 605, 1637, 1164, 1395, 645, 995, 1197, 805, 776, 1037, 1116, 749, 1171,
  867, 1041, 881, 157, 701, 363, 1053, 1778, 849, 2043, 574, 1353, 1065, 824, 1010, 976,
  923, 17, 1339, 2006, 690, 213, 658, 797, 695, 815, 1323, 1321, 292, 125, 230, 1866,
  743, 1047, 789, 1918, 977, 1022, 1713, 953, 1295, 293, 1435, 755, 1613, 1285, 1283, 1293 >>
perm5_11 == <<
  806, 851, 683, 1233, 847, 327, 1968, 151, 1183, 1261, 1236, 631, 941, 674, 398, 878,
  1192, 1245, 855, 1034, 655, 1830, 166, 1850, 671, 619, 1003, 191, 798, 1221, 1821, 906,
  759, 1820, 598, 626, 1051, 379, 946, 179, 719, 773, 678, 744, 396, 714, 1919, 1983,
  974, 938, 462, 1874, 685, 1547, 731, 779, 1558, 907, 599, 746, 782, 133, 458, 1817,
  64, 689, 1364, 1688, 750, 1141, 1726, 1706, 638, 785, 1579, 950, 845, 572, 218, 1492,
  272, 1191, 588, 59, 833, 547, 306, 1542, 1668, 663, 402, 1646, 1927, 810, 551, 1027,
  591, 1125, 1890, 1958, 579, 1008, 434, 894, 1086, 644, 1030, 675, 1060, 729, 1059, 1362,
  615, 681, 603, 697, 2016, 745, 10, 686, 1039, 691, 961, 541, 1590, 1029, 1092, 710 >>
perm5_12 == <<
  128, 840, 609, 1017, 733, 1130, 601, 1153, 1123, 1005, 1541, 565, 724, 69, 550, 698,
  614, 516, 915, 1920, 1708, 1479, 1318, 1122, 507, 542, 46, 581, 777, 1564, 561, 672,
  693, 716, 1258, 1398, 356, 494, 1313, 548, 344, 792, 610, 111, 584, 345, 931, 1109,
  927, 925, 954, 1382, 1100, 715, 520, 1796, 871, 594, 1557, 1253, 2026, 1166, 479, 2002,
  895, 596, 891, 357, 515, 474, 488, 1714, 72, 877, 430, 873, 753, 687, 174, 441,
  647, 861, 859, 857, 487, 1280, 1561, 679, 585, 563, 1097, 1659, 2028, 149, 763, 555,
  224, 267, 508, 1803, 980, 684, 1860, 5, 1655, 1220, 1790, 442, 595, 81, 457, 71,
  449, 13, 918, 793, 660, 1026, 528, 1388, 620, 305, 467, 483, 1516, 1360, 326, 761 >>
perm5_13 == <<
  673, 1607, 417, 1142, 1662, 1950, 392, 435, 422, 459, 1138, 1762, 409, 1006, 592, 1016,
  144, 335, 509, 1656, 482, 404, 723, 933, 387, 717, 524, 420, 1522, 709, 1020, 1486,
  790, 728, 1582, 452, 455, 1734, 518, 443, 264, 1476, 557, 373, 985, 770, 539, 383,
  351, 2010, 966, 406, 347, 281, 659, 657, 371, 653, 1906, 656, 431, 203, 801, 1498,
  506, 39, 353, 633, 543, 320, 1226, 1589, 1144, 876, 642, 617, 1981, 1887, 720, 670,
  1250, 1275, 525, 886, 826, 480, 477, 1330, 315, 419, 1390, 1366, 465, 1066, 242, 1461,
  575, 1798, 652, 296, 1632, 333, 375, 481, 986, 836, 26, 786, 299, 291, 554, 818,
  311, 2038, 262, 165, 44, 807, 493, 1771, 314, 301, 1747, 521, 389, 1788, 401, 385 >>
perm5_14 == <<
  1219, 821, 310, 405, 646, 294, 275, 331, 309, 725, 1085, 537, 253, 485, 403, 280,
  245, 297, 589, 473, 261, 1722, 758, 1500, 388, 263, 249, 257, 231, 453, 529, 274,
  829, 319, 214, 492, 439, 1426, 376, 707, 323, 1090, 243, 425, 898, 654, 1383, 668,
  220, 830, 308, 239, 553, 258, 778, 1698, 339, 538, 395, 334, 1779, 359, 158, 1132,
  838, 2020, 303, 606, 330, 466, 1979, 635, 394, 426, 246, 361, 1212, 23, 629, 49,
  223, 27, 260, 450, 221, 215, 199, 1193, 175, 558, 618, 1596, 185, 225, 350, 270,
  189, 254, 771, 460, 365, 163, 1131, 447, 2040, 269, 229, 540, 140, 711, 889, 188,
  661, 285, 283, 451, 132, 704, 1440, 1948, 1610, 164, 1836, 1972, 928, 338, 234, 176 >>
perm5_15 == <<
  0, 571, 324, 346, 154, 123, 1909, 381, 162, 1530, 513, 377, 738, 1746, 141, 9,
  195, 103, 219, 115, 1554, 93, 1776, 183, 772, 63, 110, 760, 1626, 131, 468, 290,
  143, 981, 828, 278, 99, 1480, 82, 1145, 109, 173, 240, 486, 76, 355, 30, 161,
  726, 232, 1410, 196, 79, 91, 885, 65, 95, 113, 62, 74, 1222, 222, 148, 168,
  882, 227, 186, 463, 117, 255, 438, 1302, 104, 60, 80, 105, 84, 121, 156, 498,
  96, 400, 83, 37, 87, 45, 205, 549, 75, 47, 318, 478, 1415, 382, 437, 35,
  502, 796, 22, 57, 147, 40, 33, 58, 25, 1241, 150, 378, 1320, 41, 126, 1093,
  31, 7, 21, 910, 4, 892, 1800, 88, 15, 54, 11, 546, 556, 630, 206, 408 >>

perm6_0 == <<
  1761, 1751, 413, 1840, 1941, 719, 219, 441, 1385, 1012, 1363, 401, 165, 655, 1871, 1780,
  385, 2046, 1815, 580, 77, 306, 1267, 935, 1337, 450, 299, 884, 185, 224, 1001, 499,
  737, 1715, 1419, 1865, 1041, 961, 1625, 1024, 1169, 53, 1691, 65, 1193, 1066, 1689, 1061,
  1185, 62, 2005, 78, 1217, 1115, 1769, 1186, 1361, 303, 5, 467, 2001, 1684, 455, 1975,
  289, 1352, 1197, 1808, 1205, 1370, 325, 50, 545, 1810, 2033, 731, 365, 773, 1955, 1942,
  2015, 310, 661, 1790, 1733, 493, 35, 359, 1465, 1394, 149, 1647, 17, 1130, 1075, 1980,
  1377, 1736, 2024, 926, 1709, 2023, 1759, 1030, 1097, 1969, 1677, 251, 1565, 1738, 1970, 610,
  1249, 755, 1065, 246, 233, 1026, 695, 1172, 529, 696, 1673, 1535, 285, 1772, 227, 2013 >>
perm6_1 == <<
  1505, 488, 1983, 908, 429, 770, 1968, 86, 977, 779, 1405, 946, 1313, 599, 713, 1655,
  1521, 314, 1841, 396, 1685, 8, 1933, 1059, 1889, 1660, 375, 1823, 1977, 1560, 1745, 883,
  865, 1997, 1475, 220, 1697, 254, 1543, 1799, 1025, 1103, 155, 61, 821, 560, 1155, 733,
  2007, 592, 875, 1957, 1923, 1283, 1277, 270, 129, 854, 583, 1180, 785, 1260, 747, 1106,
  481, 730, 1853, 144, 1165, 1211, 1867, 239, 1073, 940, 1987, 1885, 301, 13, 611, 1882,
  1859, 1971, 835, 358, 1937, 245, 1901, 38, 361, 1580, 1961, 1219, 1473, 800, 1029, 335,
  1984, 1659, 33, 1136, 1325, 603, 791, 72, 265, 1978, 1573, 877, 1943, 422, 665, 1913,
  1917, 1481, 1787, 1210, 1557, 1879, 1920, 938, 2039, 2010, 1467, 1856, 2043, 1880, 1931, 1952 >>
perm6_2 == <<
  1967, 602, 1909, 1357, 461, 507, 1495, 1640, 945, 1196, 1833, 974, 505, 986, 639, 1244,
  1802, 1760, 1675, 1835, 829, 1816, 275, 1438, 25, 1343, 91, 1570, 485, 368, 1828, 2012,
  1892, 1839, 1848, 667, 313, 1949, 1910, 1601, 1649, 1948, 1999, 677, 1153, 866, 1939, 1919,
  689, 863, 1849, 699, 1838, 1775, 941, 116, 1807, 1460, 161, 1597, 569, 1945, 1525, 51,
  1907, 127, 1795, 1758, 905, 1902, 1791, 453, 1749, 1214, 543, 892, 1730, 1220, 1203, 497,
  817, 452, 1994, 1811, 2036, 1721, 399, 1095, 1121, 480, 1812, 1781, 1794, 1500, 959, 1462,
  1727, 515, 765, 370, 1938, 1039, 415, 845, 641, 1493, 29, 1310, 281, 1722, 1409, 204,
  2004, 992, 1307, 1013, 113, 1741, 1529, 2016, 2014, 1667, 525, 463, 1806, 1834, 93, 1886 >>
perm6_3 == <<
  1951, 1152, 353, 644, 1739, 1178, 1425, 1109, 1793, 1985, 121, 887, 1101, 766, 1924, 110,
  1441, 584, 837, 555, 1699, 41, 1455, 701, 1897, 1916, 1904, 680, 613, 1829, 1861, 624,
  1963, 828, 995, 1809, 1469, 153, 1752, 1754, 1681, 1400, 911, 1566, 125, 1451, 687, 1847,
  993, 2022, 2000, 1213, 909, 152, 1644, 509, 1792, 1743, 919, 710, 1679, 590, 683, 347,
  1719, 1598, 1589, 1161, 317, 2034, 581, 98, 801, 1099, 1629, 492, 1181, 1844, 1663, 890,
  1607, 344, 1735, 1436, 625, 1020, 1043, 697, 1561, 1763, 623, 402, 1397, 466, 1934, 1929,
  1581, 1107, 1583, 1877, 1903, 989, 1726, 1672, 1671, 268, 1229, 1682, 1687, 1594, 1960, 1309,
  1707, 743, 1724, 530, 1925, 688, 1105, 1235, 1081, 646, 1586, 486, 1693, 1922, 513, 1729 >>
perm6_4 == <<
  1706, 1225, 1641, 1430, 1747, 627, 1643, 369, 1555, 674, 471, 1634, 893, 1522, 403, 1646,
  1559, 1567, 1946, 1554, 1281, 2019, 1551, 416, 1637, 1366, 795, 1524, 597, 2032, 1973, 1599,
  1664, 692, 189, 1578, 1514, 1546, 1031, 1995, 1935, 1954, 1742, 451, 1389, 1568, 1355, 391,
  1549, 1050, 1189, 1979, 1651, 880, 1519, 99, 1503, 1822, 1881, 2041, 2030, 1160, 1895, 260,
  417, 491, 1574, 1572, 1666, 1827, 1187, 825, 1513, 1381, 841, 248, 1639, 374, 1708, 320,
  1798, 1648, 681, 1221, 1683, 769, 1544, 1511, 1628, 1084, 47, 1614, 849, 1247, 205, 1700,
  1479, 11, 1492, 1638, 1547, 1444, 1911, 100, 1606, 1695, 1670, 1785, 1731, 1365, 1487, 1472,
  1496, 810, 1988, 191, 1789, 1271, 1612, 1234, 1517, 1454, 387, 1569, 1423, 1478, 1439, 379 >>
perm6_5 == <<
  1428, 1875, 1786, 1966, 1448, 279, 1437, 752, 1504, 354, 1613, 512, 109, 1250, 1147, 1199,
  1466, 389, 925, 1757, 1113, 1538, 1440, 630, 833, 1223, 421, 1195, 1657, 576, 571, 1386,
  1399, 435, 1774, 965, 1701, 1016, 15, 618, 89, 1168, 1123, 1819, 2045, 1119, 2042, 2028,
  705, 1457, 1463, 1415, 2003, 1330, 397, 1796, 753, 1490, 1624, 1575, 973, 1753, 897, 1354,
  1541, 1421, 523, 1830, 1674, 1338, 2006, 1434, 1489, 950, 1571, 196, 1623, 886, 1947, 386,
  1821, 59, 1342, 1858, 1117, 44, 691, 1512, 1429, 1477, 709, 1622, 1417, 780, 1376, 1380,
  1766, 716, 1135, 1498, 1431, 1141, 741, 1826, 1391, 1004, 1157, 482, 1339, 1427, 39, 1295,
  449, 1432, 1940, 1723, 1532, 1662, 1412, 1371, 1403, 1950, 1927, 190, 1390, 1129, 1131, 1788 >>
perm6_6 == <<
  225, 606, 269, 1712, 1303, 1414, 1346, 754, 1642, 1188, 2031, 179, 573, 1990, 1527, 1891,
  1579, 1618, 561, 207, 1627, 139, 433, 1773, 2040, 2035, 1319, 331, 781, 647, 1375, 1149,
  1253, 626, 1868, 1410, 1327, 1468, 1287, 1291, 1379, 1993, 487, 187, 617, 1442, 1850, 1610,
  1616, 1262, 1797, 968, 1534, 1022, 1776, 1259, 1631, 622, 649, 1734, 645, 1632, 1420, 1298,
  1416, 1619, 1285, 547, 1499, 660, 1539, 506, 1358, 1348, 1275, 1914, 1407, 1603, 1331, 462,
  1239, 798, 1801, 1329, 1241, 1424, 1989, 1756, 1057, 1587, 1045, 1516, 1484, 324, 393, 230,
  1201, 1845, 1240, 921, 1887, 1435, 1254, 1604, 1231, 85, 103, 1494, 1464, 1762, 1349, 1411,
  1855, 1265, 1748, 595, 1280, 101, 1686, 1170, 1783, 1402, 1350, 1690, 1382, 380, 1215, 662 >>
perm6_7 == <<
  1311, 776, 1392, 1204, 1151, 1502, 1166, 1602, 1531, 1396, 1276, 1208, 1143, 620, 1393, 902,
  1703, 2029, 1658, 1825, 1713, 1506, 1694, 154, 1183, 1288, 1688, 1744, 1899, 382, 1869, 1515,
  1202, 1814, 1676, 1362, 2037, 1159, 553, 1553, 1528, 589, 1127, 574, 1661, 1474, 1263, 1767,
  1248, 702, 1652, 1803, 985, 912, 1508, 557, 1518, 1824, 1784, 300, 1312, 1140, 1207, 1007,
  1873, 1148, 1447, 1846, 517, 1918, 859, 1609, 1085, 1286, 1175, 308, 1333, 1274, 1725, 1270,
  1959, 1750, 175, 983, 1245, 1344, 1459, 1301, 1443, 470, 629, 271, 465, 158, 1471, 1510,
  1139, 430, 1611, 1124, 1083, 715, 1224, 885, 873, 458, 1064, 1055, 1071, 163, 1562, 419,
  1044, 334, 1383, 1011, 1126, 440, 1550, 759, 1306, 997, 1956, 1056, 1533, 1364, 1190, 860 >>
perm6_8 == <<
  1137, 1782, 1605, 1476, 1227, 1582, 1177, 1862, 1269, 1304, 2027, 2044, 1264, 2021, 1233, 2017,
  1023, 412, 1089, 1138, 1017, 1308, 1028, 1002, 1009, 1146, 1698, 772, 1019, 1335, 1485, 1654,
  1704, 206, 215, 1036, 1156, 2020, 1732, 970, 1088, 1965, 751, 1005, 1049, 1067, 1577, 1592,
  1163, 1052, 735, 786, 1718, 706, 1164, 1656, 1230, 976, 1091, 1615, 1315, 1176, 1299, 1921,
  987, 991, 1915, 1433, 21, 1336, 1112, 1905, 1216, 1584, 1347, 1078, 1737, 1893, 988, 1014,
  1179, 532, 1289, 1964, 1174, 1564, 1406, 218, 1372, 1552, 1027, 1018, 1863, 1633, 1878, 1857,
  1167, 1070, 1388, 933, 978, 1650, 1843, 1133, 929, 1837, 1228, 920, 1831, 980, 559, 948,
  1883, 1243, 1182, 1817, 1134, 666, 1008, 1079, 958, 1778, 1072, 518, 979, 568, 1273, 1928 >>
perm6_9 == <<
  1068, 510, 1805, 1446, 1356, 916, 1779, 1777, 137, 788, 1771, 1238, 1104, 1765, 899, 338,
  1621, 1491, 1755, 1345, 917, 1404, 1158, 998, 1077, 924, 1590, 1770, 903, 1087, 951, 1804,
  1296, 814, 43, 895, 1114, 1717, 879, 346, 1711, 1194, 975, 1705, 1373, 26, 535, 1074,
  1896, 1209, 1268, 1053, 1145, 1426, 967, 898, 1116, 468, 1256, 872, 857, 1669, 1958, 1665,
  918, 1620, 869, 596, 896, 1653, 1820, 962, 1449, 14, 563, 634, 1100, 827, 1635, 930,
  1746, 180, 901, 2002, 1507, 1294, 971, 1617, 999, 2038, 1173, 1080, 956, 1098, 839, 2009,
  1015, 790, 1595, 1593, 994, 200, 1413, 1520, 803, 867, 1545, 806, 934, 1813, 1334, 947,
  1198, 1340, 739, 1206, 831, 954, 843, 953, 853, 10, 784, 332, 309, 704, 846, 1537 >>
perm6_10 == <<
  2008, 1000, 793, 1302, 777, 1536, 131, 1563, 876, 578, 1341, 775, 818, 40, 811, 1320,
  273, 1501, 807, 282, 501, 802, 643, 1936, 1418, 446, 1150, 1032, 870, 342, 767, 782,
  1191, 881, 819, 454, 756, 848, 1094, 1982, 787, 1453, 1461, 894, 904, 1445, 1314, 1132,
  305, 1401, 1192, 1118, 871, 740, 943, 868, 889, 1930, 964, 504, 1953, 1450, 511, 1456,
  714, 1981, 727, 718, 734, 362, 1395, 778, 736, 1184, 1040, 1021, 141, 1696, 95, 1585,
  1497, 1144, 1292, 1369, 1367, 1034, 1226, 1832, 1888, 1972, 1282, 1353, 1323, 1986, 1010, 2018,
  1591, 757, 1251, 891, 834, 394, 1305, 1926, 910, 824, 1678, 30, 703, 1976, 804, 746,
  81, 1702, 914, 88, 1317, 1090, 669, 1297, 1596, 1293, 721, 1854, 1093, 963, 1866, 490 >>
perm6_11 == <<
  1279, 851, 651, 142, 1033, 799, 2025, 1898, 789, 1261, 1740, 1257, 1255, 659, 1800, 1874,
  1246, 923, 663, 745, 1003, 1237, 823, 594, 457, 1872, 836, 1048, 815, 1636, 653, 685,
  972, 642, 749, 160, 1962, 637, 816, 424, 605, 1102, 764, 1509, 1523, 664, 1716, 1120,
  628, 182, 1171, 619, 707, 805, 878, 350, 927, 94, 678, 748, 612, 656, 855, 607,
  577, 210, 1042, 68, 1378, 808, 922, 168, 1387, 1322, 1870, 1851, 969, 1360, 842, 1556,
  671, 732, 726, 567, 1111, 1062, 830, 712, 1351, 336, 1374, 609, 783, 1128, 551, 548,
  575, 122, 1051, 318, 809, 534, 670, 1232, 593, 1069, 1222, 942, 797, 966, 847, 949,
  1063, 1122, 541, 587, 349, 172, 527, 838, 679, 1218, 723, 226, 570, 720, 447, 1526 >>
perm6_12 == <<
  888, 408, 579, 588, 820, 675, 1318, 1906, 952, 544, 508, 608, 708, 1944, 1608, 198,
  1212, 2011, 1728, 564, 614, 1142, 524, 521, 796, 1714, 539, 1894, 725, 503, 722, 1452,
  913, 957, 955, 717, 832, 640, 1290, 711, 565, 284, 939, 352, 1300, 654, 931, 1086,
  1082, 585, 533, 1860, 472, 900, 915, 102, 944, 844, 907, 500, 495, 1680, 502, 330,
  700, 822, 668, 60, 1483, 1328, 519, 566, 105, 1035, 729, 1047, 253, 1588, 768, 136,
  1668, 861, 459, 758, 763, 1368, 638, 484, 635, 1125, 498, 483, 479, 1645, 2047, 694,
  1278, 434, 473, 1110, 514, 536, 1470, 616, 858, 1540, 1710, 489, 1890, 586, 431, 693,
  598, 531, 1630, 984, 426, 1316, 1408, 936, 591, 348, 631, 252, 1842, 728, 771, 1154 >>
perm6_13 == <<
  556, 4, 259, 761, 928, 1852, 1096, 1884, 981, 760, 528, 1864, 423, 476, 1764, 442,
  49, 409, 1037, 437, 377, 420, 1266, 373, 1991, 1076, 1252, 212, 937, 340, 1006, 1058,
  193, 363, 135, 1576, 395, 552, 1321, 1486, 1626, 405, 982, 856, 1530, 176, 650, 673,
  400, 657, 738, 850, 621, 124, 494, 516, 813, 414, 1600, 1038, 404, 360, 792, 572,
  1359, 478, 371, 256, 852, 170, 322, 427, 321, 357, 762, 1836, 355, 304, 407, 326,
  241, 1458, 333, 562, 302, 311, 633, 540, 443, 383, 460, 1200, 750, 600, 75, 1692,
  288, 297, 381, 474, 425, 290, 1974, 1384, 364, 134, 882, 76, 298, 604, 684, 294,
  287, 1932, 323, 812, 296, 307, 1818, 794, 267, 1558, 87, 263, 339, 1422, 292, 1284 >>
perm6_14 == <<
  319, 1092, 384, 1398, 272, 315, 550, 428, 398, 1720, 366, 240, 157, 283, 648, 601,
  436, 477, 475, 906, 243, 469, 1542, 558, 554, 266, 932, 132, 341, 744, 63, 2026,
  257, 445, 295, 1992, 439, 406, 672, 388, 231, 262, 538, 56, 247, 632, 223, 438,
  232, 996, 411, 1272, 1060, 293, 249, 329, 201, 676, 264, 686, 237, 312, 1900, 392,
  203, 464, 250, 682, 234, 208, 211, 258, 367, 217, 372, 542, 242, 410, 236, 1548,
  197, 537, 213, 345, 343, 960, 376, 337, 209, 24, 874, 658, 327, 173, 698, 216,
  167, 199, 151, 186, 840, 774, 177, 1108, 1046, 724, 1332, 742, 221, 188, 1054, 1488,
  162, 192, 156, 328, 159, 277, 229, 1908, 169, 202, 143, 181, 133, 261, 174, 214 >>
perm6_15 == <<
  97, 526, 107, 444, 520, 862, 171, 615, 1258, 195, 120, 636, 549, 147, 235, 255,
  119, 990, 690, 826, 115, 316, 123, 111, 1324, 456, 1326, 84, 1236, 278, 118, 351,
  104, 70, 1480, 390, 183, 228, 108, 448, 1482, 130, 67, 1242, 114, 291, 286, 146,
  83, 274, 194, 1996, 96, 418, 112, 145, 1912, 356, 79, 128, 184, 71, 66, 522,
  82, 80, 92, 74, 496, 117, 69, 32, 9, 164, 57, 1876, 64, 178, 652, 1998,
  222, 140, 3, 138, 244, 166, 23, 150, 90, 46, 378, 106, 276, 864, 58, 48,
  1, 546, 1162, 582, 55, 28, 73, 34, 36, 45, 52, 2, 280, 37, 238, 54,
  31, 19, 27, 12, 148, 6, 1768, 16, 432, 20, 18, 0, 7, 42, 22, 126 >>

perm7_0 == <<
  1531, 22, 721, 1580, 555, 1735, 1033, 493, 115, 1938, 1883, 1990, 223, 655, 1249, 2005,
  891, 1972, 1185, 562, 103, 1835, 1703, 2042, 1931, 268, 793, 1482, 315, 1333, 497, 1844,
  1339, 1000, 827, 820, 979, 1304, 1795, 443, 1267, 250, 1407, 725, 211, 1868, 1689, 1678,
  2026, 161, 2034, 1317, 151, 1150, 323, 1659, 1171, 853, 705, 727, 919, 1281, 1813, 530,
  1403, 463, 1677, 1080, 1997, 402, 321, 412, 675, 1110, 1717, 523, 1475, 628, 1925, 1425,
  1099, 947, 969, 1165, 1535, 116, 835, 1728, 1961, 118, 1963, 1169, 2011, 965, 1127, 1465,
  27, 718, 1585, 679, 1899, 1348, 975, 780, 763, 924, 1263, 1780, 535, 1409, 2030, 1754,
  1227, 880, 713, 726, 1987, 1292, 1845, 649, 1563, 730, 79, 1957, 1247, 1141, 1217, 1971 >>
perm7_1 == <<
  1915, 618, 1423, 2040, 1663, 1100, 2045, 526, 515, 688, 1045, 1586, 403, 1313, 501, 1940,
  2015, 1084, 1015, 1132, 1435, 25, 701, 1927, 715, 55, 1477, 1192, 1095, 1186, 1952, 43,
  699, 1543, 689, 1898, 1947, 1994, 1055, 1882, 2037, 31, 697, 1553, 723, 85, 1513, 1258,
  1195, 1324, 1645, 289, 995, 26, 1117, 1939, 147, 1816, 1815, 1863, 1864, 1865, 35, 1006,
  2019, 1675, 1375, 1271, 1363, 1651, 285, 966, 1843, 1069, 1916, 2039, 1779, 1796, 169, 583,
  1871, 166, 1175, 545, 2016, 1720, 2001, 1884, 395, 1954, 2024, 876, 219, 1591, 1337, 1285,
  1879, 1787, 519, 1276, 415, 1577, 1123, 873, 2013, 985, 1347, 100, 871, 1857, 1215, 790,
  571, 558, 751, 1880, 1755, 1943, 1781, 1204, 1959, 674, 1913, 976, 1439, 1855, 1839, 490 >>
perm7_2 == <<
  1822, 1501, 1968, 1559, 1999, 670, 1823, 625, 1951, 1424, 2033, 1286, 1924, 217, 2031, 0,
  1967, 635, 385, 349, 527, 2023, 1525, 576, 1611, 1093, 791, 1989, 1799, 1181, 1743, 760,
  1803, 1207, 877, 765, 1811, 1793, 1737, 744, 1723, 1956, 1763, 1797, 1861, 1153, 1699, 720,
  1707, 1991, 857, 1756, 895, 1923, 83, 1934, 163, 1405, 1135, 1089, 2007, 1669, 565, 1416,
  1802, 336, 135, 160, 411, 888, 1826, 799, 235, 1618, 1509, 1628, 259, 1749, 1639, 958,
  507, 286, 295, 534, 1003, 1702, 925, 380, 67, 1833, 137, 520, 1733, 283, 1851, 978,
  1747, 910, 1935, 1874, 1759, 200, 1455, 1255, 1291, 1896, 1773, 1130, 427, 1869, 1417, 1427,
  1854, 482, 1758, 1929, 19, 1460, 1889, 37, 1937, 1801, 1836, 1753, 2047, 1552, 149, 1979 >>
perm7_3 == <<
  1983, 1926, 301, 1962, 175, 478, 1025, 159, 1936, 2012, 691, 808, 1742, 129, 1814, 438,
  139, 88, 1849, 1662, 1917, 1748, 269, 2025, 1791, 413, 961, 122, 1850, 1714, 1805, 1770,
  1903, 1704, 1305, 2036, 1664, 711, 1021, 1949, 779, 229, 1557, 1518, 1713, 589, 1319, 1910,
  1794, 1690, 343, 1752, 1919, 709, 275, 101, 187, 533, 1139, 400, 1527, 1311, 1357, 64,
  1774, 1468, 1830, 1932, 1633, 1040, 1593, 817, 307, 63, 1692, 373, 927, 1724, 1738, 1901,
  1051, 1355, 345, 1890, 1895, 514, 1840, 922, 1667, 1634, 1751, 1715, 379, 771, 1785, 802,
  2008, 358, 547, 1010, 183, 1655, 1632, 1561, 1562, 188, 1017, 1729, 391, 495, 1757, 1537,
  923, 1718, 1859, 761, 1731, 506, 1783, 1853, 1459, 282, 931, 1977, 1847, 1492, 195, 1642 >>
perm7_4 == <<
  1575, 1090, 935, 1066, 1483, 1627, 1619, 1392, 1680, 2035, 1574, 210, 1399, 1353, 75, 610,
  1569, 1031, 1560, 1775, 1894, 1654, 363, 1614, 331, 756, 1920, 1955, 1623, 875, 1547, 450,
  1519, 1213, 1289, 162, 1769, 1721, 1969, 1995, 1671, 1788, 673, 453, 1549, 1517, 1529, 1104,
  907, 1014, 1789, 1530, 191, 33, 181, 1599, 1395, 982, 1876, 1980, 1489, 1533, 1550, 553,
  1695, 1411, 1499, 1807, 619, 1508, 185, 1170, 1761, 1804, 1665, 1705, 2043, 1905, 1727, 1341,
  1507, 1491, 609, 1001, 1572, 1288, 2029, 1402, 491, 1349, 1081, 1745, 1640, 766, 1581, 248,
  475, 1026, 1982, 226, 1615, 1644, 1672, 1105, 1067, 1601, 1730, 1590, 1631, 89, 597, 10,
  1179, 1688, 241, 1478, 1480, 622, 943, 1481, 1635, 1476, 1325, 1676, 1470, 1254, 1832, 1429 >>
perm7_5 == <<
  1767, 1892, 1321, 1685, 1494, 942, 1620, 61, 1469, 552, 613, 1018, 371, 70, 1973, 1546,
  1243, 1474, 1945, 1697, 1626, 409, 457, 855, 1827, 1318, 3, 423, 2032, 940, 1039, 1393,
  1551, 710, 1716, 1352, 1523, 676, 1506, 1428, 1466, 886, 1746, 1819, 39, 2038, 1588, 1083,
  795, 1691, 1602, 758, 1598, 750, 1295, 1373, 1706, 1073, 1404, 1443, 119, 541, 2018, 1462,
  1603, 557, 1461, 1376, 455, 1750, 1490, 1909, 2003, 1534, 1011, 1310, 1484, 1630, 485, 970,
  1711, 426, 1988, 1589, 1151, 1820, 1437, 36, 1315, 340, 1071, 1358, 1059, 320, 1824, 12,
  1567, 1264, 1964, 1456, 1371, 606, 1570, 1362, 1367, 1024, 1829, 1452, 1390, 1505, 1887, 531,
  1457, 1812, 1133, 1273, 1495, 177, 1719, 1877, 1609, 1451, 1928, 1908, 1497, 406, 1922, 1463 >>
perm7_6 == <<
  1275, 678, 1412, 1744, 1668, 1444, 51, 656, 1907, 566, 1145, 1316, 1584, 310, 2010, 1284,
  1579, 1683, 561, 1858, 1307, 977, 1682, 1679, 179, 1740, 1687, 1610, 71, 1114, 1870, 737,
  1582, 837, 2002, 1992, 1554, 6, 1379, 1726, 1155, 1415, 387, 1888, 1647, 1975, 417, 601,
  1693, 1064, 1340, 841, 783, 1238, 1351, 1259, 1229, 1068, 1265, 1331, 1911, 1471, 1361, 1921,
  1218, 1700, 669, 1400, 1817, 1383, 1649, 2014, 267, 1203, 1607, 840, 1595, 1126, 1522, 866,
  1790, 72, 377, 1344, 1241, 1219, 1498, 1624, 1223, 133, 1784, 1978, 1220, 197, 1778, 1941,
  1327, 1225, 1772, 401, 1299, 772, 1766, 1536, 1224, 260, 173, 574, 291, 498, 1221, 44,
  1886, 1555, 1176, 1330, 1454, 23, 9, 1277, 1503, 637, 1661, 467, 1274, 1196, 1194, 386 >>
perm7_7 == <<
  1201, 1391, 735, 334, 1430, 1062, 1336, 1831, 1904, 1158, 1237, 653, 1709, 1343, 1293, 1515,
  1419, 600, 1087, 963, 231, 1338, 1441, 62, 1193, 1414, 1650, 1837, 1966, 468, 1253, 1112,
  1115, 1163, 1160, 989, 1487, 2006, 1725, 2028, 419, 1514, 1187, 1036, 1384, 1191, 1401, 1257,
  91, 449, 257, 1467, 435, 807, 1142, 1657, 1369, 190, 1946, 1528, 1364, 1722, 1124, 1143,
  251, 811, 1372, 1164, 479, 1177, 1622, 1597, 1106, 1576, 1308, 2041, 1613, 1199, 1252, 692,
  1205, 2022, 1643, 50, 823, 1222, 1846, 280, 1210, 752, 1592, 1233, 615, 352, 1885, 569,
  1583, 1684, 659, 844, 1818, 930, 1732, 1157, 1571, 2046, 279, 105, 1565, 1120, 153, 364,
  155, 568, 1556, 1077, 359, 1332, 1473, 1397, 1074, 489, 1129, 1049, 1541, 636, 1303, 1065 >>
perm7_8 == <<
  1183, 1309, 1167, 1312, 1079, 864, 1526, 232, 1777, 170, 2027, 690, 1825, 2021, 1159, 2017,
  1511, 1809, 1096, 1808, 263, 404, 1335, 1616, 1028, 1109, 1496, 1993, 1244, 1764, 1345, 1974,
  1573, 686, 998, 1540, 1234, 1434, 1030, 1378, 1019, 1965, 1472, 999, 980, 556, 1, 150,
  1545, 1520, 1674, 2, 1323, 292, 1118, 1121, 1088, 1933, 993, 1736, 599, 1283, 1488, 256,
  955, 464, 994, 1022, 1365, 90, 1852, 1458, 1986, 1600, 1329, 1897, 1184, 1984, 1108, 1214,
  1297, 1057, 1260, 114, 1154, 1450, 1875, 1768, 967, 1374, 1212, 184, 1860, 884, 1420, 1810,
  1009, 448, 437, 1637, 1202, 941, 1741, 1841, 1287, 960, 983, 1178, 1144, 992, 1063, 424,
  968, 1821, 1091, 214, 1856, 440, 1268, 1266, 1406, 1206, 1085, 964, 1005, 956, 1346, 298 >>
perm7_9 == <<
  1298, 946, 917, 542, 1389, 1566, 645, 972, 1300, 1446, 1771, 640, 1413, 1765, 899, 862,
  1891, 1893, 905, 860, 847, 881, 1119, 826, 874, 921, 1054, 1279, 1301, 1070, 1180, 1037,
  971, 1113, 991, 986, 1432, 650, 1302, 782, 1023, 1605, 945, 1198, 1082, 1701, 1942, 1578,
  1862, 1902, 869, 974, 447, 1366, 1262, 936, 878, 368, 1256, 1970, 911, 1408, 938, 901,
  903, 1048, 1867, 196, 367, 1653, 1029, 1034, 1235, 849, 1232, 1641, 893, 142, 353, 902,
  839, 1792, 1116, 208, 1182, 746, 819, 510, 1587, 1075, 1485, 1544, 1996, 1240, 2004, 1696,
  1239, 1838, 816, 796, 1953, 1670, 1190, 454, 870, 825, 1211, 1881, 743, 861, 1047, 858,
  1147, 1043, 1686, 138, 909, 238, 1166, 1294, 1027, 929, 1078, 1739, 687, 824, 1410, 1666 >>
perm7_10 == <<
  863, 168, 717, 809, 663, 852, 1097, 1521, 987, 770, 1136, 1873, 1007, 1322, 845, 848,
  683, 538, 794, 962, 815, 1493, 774, 764, 867, 682, 1539, 1960, 813, 1944, 1612, 1076,
  1103, 776, 1914, 1673, 271, 832, 1625, 34, 1930, 1453, 882, 460, 1447, 890, 851, 1004,
  2009, 1734, 1098, 1433, 351, 834, 1189, 805, 1156, 1421, 1834, 234, 1950, 1918, 957, 753,
  1681, 706, 773, 330, 900, 1032, 1479, 1248, 856, 1230, 17, 1385, 913, 1381, 505, 350,
  859, 798, 1828, 1094, 854, 470, 1388, 1216, 696, 632, 831, 702, 1013, 842, 1985, 660,
  667, 685, 1138, 1250, 887, 344, 739, 949, 1107, 950, 1209, 707, 665, 1976, 865, 836,
  1231, 1652, 740, 1958, 327, 787, 822, 1532, 1948, 486, 747, 1629, 804, 1242, 748, 500 >>
perm7_11 == <<
  1350, 948, 868, 883, 953, 654, 381, 704, 1548, 1261, 205, 1906, 1422, 889, 1251, 749,
  677, 1245, 939, 1172, 745, 951, 1431, 1060, 611, 647, 920, 990, 614, 1278, 959, 680,
  872, 1128, 517, 846, 1981, 803, 1786, 1500, 644, 1197, 712, 1359, 1617, 30, 933, 1449,
  767, 1762, 754, 504, 247, 1173, 1226, 1052, 729, 738, 733, 1161, 769, 830, 1342, 1596,
  602, 1356, 1053, 472, 801, 1370, 797, 564, 898, 944, 1131, 736, 596, 1125, 1798, 626,
  788, 638, 590, 703, 1111, 734, 578, 1658, 1149, 1101, 1516, 1646, 651, 567, 1086, 290,
  1137, 904, 1360, 1445, 595, 821, 806, 172, 575, 1604, 1418, 1188, 607, 1710, 624, 620,
  560, 132, 57, 892, 785, 1269, 584, 1041, 1377, 46, 1035, 762, 1900, 1038, 616, 466 >>
perm7_12 == <<
  591, 1168, 539, 1621, 383, 759, 1638, 579, 755, 476, 1280, 671, 335, 997, 829, 422,
  786, 528, 1140, 661, 509, 1306, 1146, 1872, 916, 1648, 277, 648, 623, 436, 117, 1272,
  719, 1436, 716, 639, 570, 1782, 934, 1354, 227, 1046, 521, 254, 483, 593, 775, 1394,
  588, 973, 1072, 396, 643, 937, 915, 1296, 546, 714, 608, 418, 810, 532, 630, 92,
  573, 458, 487, 1512, 1050, 84, 480, 394, 549, 432, 1386, 390, 399, 469, 784, 657,
  503, 621, 1800, 1387, 641, 572, 1502, 441, 502, 434, 496, 642, 792, 1246, 1044, 694,
  1694, 1008, 879, 492, 617, 684, 446, 1061, 462, 1440, 1538, 407, 672, 194, 581, 324,
  429, 1058, 563, 1564, 428, 1314, 577, 885, 1438, 781, 421, 1334, 465, 106, 981, 604 >>
perm7_13 == <<
  392, 1148, 281, 918, 1056, 757, 431, 389, 397, 529, 1326, 1134, 433, 741, 912, 1002,
  551, 252, 731, 410, 777, 461, 1042, 425, 838, 1380, 789, 1200, 111, 416, 109, 398,
  347, 818, 800, 742, 199, 693, 456, 494, 439, 405, 511, 681, 605, 1016, 1092, 451,
  598, 120, 843, 322, 414, 158, 325, 516, 339, 1806, 488, 369, 695, 444, 459, 1228,
  722, 631, 374, 662, 318, 629, 627, 1848, 362, 932, 225, 430, 303, 698, 996, 1524,
  658, 908, 603, 342, 537, 896, 305, 512, 333, 484, 587, 585, 952, 244, 376, 356,
  646, 156, 311, 474, 360, 1396, 1606, 104, 988, 1712, 141, 24, 1448, 666, 53, 1208,
  543, 812, 297, 74, 287, 348, 375, 317, 1708, 525, 481, 633, 559, 554, 299, 274 >>
perm7_14 == <<
  365, 914, 361, 384, 906, 1020, 264, 499, 833, 326, 1122, 258, 445, 728, 346, 261,
  550, 477, 300, 4, 471, 1174, 708, 897, 319, 1398, 45, 612, 1698, 146, 1568, 366,
  265, 243, 341, 316, 215, 1594, 246, 293, 245, 20, 255, 239, 370, 233, 314, 513,
  1328, 224, 308, 508, 204, 1486, 113, 1102, 928, 108, 296, 152, 1510, 304, 338, 198,
  332, 954, 270, 272, 309, 237, 216, 544, 522, 548, 768, 253, 203, 536, 355, 408,
  171, 393, 1504, 518, 1368, 124, 313, 337, 732, 634, 580, 206, 306, 329, 167, 984,
  207, 249, 1542, 266, 1442, 278, 186, 1998, 212, 1660, 700, 828, 1282, 524, 240, 586,
  1236, 1842, 1464, 144, 174, 388, 2000, 273, 148, 209, 136, 86, 127, 145, 140, 1152 >>
perm7_15 == <<
  123, 582, 213, 1270, 1382, 134, 222, 473, 1636, 594, 176, 180, 157, 540, 664, 420,
  107, 230, 189, 328, 7, 125, 202, 110, 592, 1320, 13, 668, 357, 2044, 1656, 294,
  850, 284, 1558, 154, 95, 97, 93, 894, 221, 1426, 193, 652, 128, 165, 2020, 242,
  1760, 236, 1912, 192, 201, 94, 130, 228, 143, 87, 65, 182, 47, 724, 98, 77,
  59, 16, 131, 121, 378, 96, 220, 288, 218, 58, 1290, 32, 73, 1608, 99, 126,
  312, 262, 164, 178, 69, 302, 778, 81, 49, 76, 29, 1866, 66, 442, 54, 28,
  60, 8, 38, 41, 1162, 926, 52, 56, 452, 68, 382, 814, 15, 276, 102, 40,
  11, 18, 82, 354, 21, 112, 5, 1878, 1012, 48, 372, 1776, 80, 42, 14, 78 >>

(* perm4[i] = i *)
perm4 == [i \in 0 .. TableLength - 1 |-> i]

perm5172 ==
  LET t == perm5_0 \o perm5_1 \o perm5_2 \o perm5_3 \o perm5_4
           \o perm5_5 \o perm5_6 \o perm5_7 \o perm5_8 \o perm5_9
           \o perm5_10 \o perm5_11 \o perm5_12 \o perm5_13 \o perm5_14 \o perm5_15
  IN  [i \in 0 .. TableLength - 1 |-> t[i + 1]]

perm6237886 ==
  LET t == perm6_0 \o perm6_1 \o perm6_2 \o perm6_3 \o perm6_4
           \o perm6_5 \o perm6_6 \o perm6_7 \o perm6_8 \o perm6_9
           \o perm6_10 \o perm6_11 \o perm6_12 \o perm6_13 \o perm6_14 \o perm6_15
  IN  [i \in 0 .. TableLength - 1 |-> t[i + 1]]

perm7128386 ==
  LET t == perm7_0 \o perm7_1 \o perm7_2 \o perm7_3 \o perm7_4
           \o perm7_5 \o perm7_6 \o perm7_7 \o perm7_8 \o perm7_9
           \o perm7_10 \o perm7_11 \o perm7_12 \o perm7_13 \o perm7_14 \o perm7_15
  IN  [i \in 0 .. TableLength - 1 |-> t[i + 1]]

(* The table of hash number which, HASH_BASE = 4 onwards. *)
perm_of(which) == CASE which = 4 -> perm4
                    [] which = 5 -> perm5172
                    [] which = 6 -> perm6237886
                    [] which = 7 -> perm7128386

=============================================================================
